---- MODULE Spec2Model ----
(***************************************************************************)
(* Model of the route optimizer of the paket routing service:              *)
(* VRPOptimizer.optimize (services/api/services/vrp_optimizer.py), the     *)
(* matrices it builds, the routing model it hands to the constraint        *)
(* solver, and the walk that turns the solver's assignment into routes.    *)
(*                                                                         *)
(* Units: latitudes are in thousandths of a degree, distances in whole     *)
(* metres, times in whole minutes.  All locations lie on one meridian.     *)
(***************************************************************************)
EXTENDS Integers, Sequences, FiniteSets, TLC

VARIABLES
  locations,          \* optimize() argument: function 0..n-1 -> Location (0 = depot)
  vehicles,           \* optimize() argument: function 0..m-1 -> Vehicle
  use_time_windows,   \* optimize() argument
  balance_routes,     \* optimize() argument
  avg_speed_kmh,      \* optimize() argument
  pc,                 \* position inside optimize()
  distance_matrix,    \* <<>> until built
  time_matrix,        \* <<>> until built
  solver_calls,       \* number of SolveWithParameters calls made
  solution,           \* <<>> until solved; then <<assignment>> or <<NoSolution>>
  solve_time_ms,      \* local of optimize()
  vehicle_idx,        \* extraction loop: current vehicle
  index,              \* extraction loop: current routing index
  stops,              \* extraction loop: stops emitted for the current vehicle
  route_distance,     \* extraction loop locals
  route_time,
  route_demand,
  sequence,
  routes,             \* routes emitted so far
  total_distance,     \* metres
  total_time,
  result,             \* <<>> until optimize() returns, then <<OptimizationResult>>
  exception,          \* <<>> or <<name of the exception that left optimize()>>
  optimizer_instance, \* module global _optimizer_instance: <<>> is None
  requests,           \* the optimize_routes requests in progress
  db,                 \* the committed rows of the database
  handlers,           \* optimize_routes requests with their database sessions
  ingests,            \* ingest_ocr_text requests with their database sessions
  geocoder,           \* the Geocoder singleton, its cache and its callers
  worker              \* the Kafka worker, its messages and its session

vars == <<locations, vehicles, use_time_windows, balance_routes, avg_speed_kmh,
          pc, distance_matrix, time_matrix, solver_calls, solution, solve_time_ms,
          vehicle_idx, index, stops, route_distance, route_time, route_demand,
          sequence, routes, total_distance, total_time, result, exception,
          optimizer_instance, requests, db, handlers, ingests, geocoder, worker>>

\* The database and the handlers and workers on it.
services == <<db, handlers, ingests, geocoder, worker>>

\* No database in the picture.
ServicesIdle ==
  /\ db = <<>>
  /\ handlers = <<>>
  /\ ingests = <<>>
  /\ geocoder = <<>>
  /\ worker = <<>>

\* The state of the router and of the module global.
router == <<optimizer_instance, requests>>

\* The arguments and locals of one optimize() call.
call == <<locations, vehicles, use_time_windows, balance_routes, avg_speed_kmh,
          pc, distance_matrix, time_matrix, solver_calls, solution, solve_time_ms,
          vehicle_idx, index, stops, route_distance, route_time, route_demand,
          sequence, routes, total_distance, total_time, result, exception>>

inputs == <<locations, vehicles, use_time_windows, balance_routes, avg_speed_kmh>>

walk == <<vehicle_idx, index, stops, route_distance, route_time, route_demand,
          sequence, routes, total_distance, total_time>>

----------------------------------------------------------------------------
\* Bounds of the model.
MaxStops == 2        \* non-depot locations in one call
MaxVehicles == 2     \* vehicles in one call

MaxRequests == 2     \* optimize_routes requests in progress together

\* Input domains.
Demands == {1, 2}
Capacities == {0, 3}
Speeds == {0, 30}
SolveTimesMs == {0, 7}          \* what int((time.time() - start_time) * 1000) may give
LatScales == {1, 5}             \* stop i lies at latitude i * scale (0.001 degree)
TimeWindows == {<<>>, <<0, 5>>} \* <<>>: both bounds None

----------------------------------------------------------------------------
\* Program constants.
MilliMetresPerMilliDegree == 111195  \* R * pi / 180 with R = 6371 km
MetresPerKm == 1000
MinutesPerHour == 60
DistanceCeiling == 100000000
TimeSlackMax == 30
TimeCeiling == 1440
SpanCoefficient == 100
penalty == 100000
DefaultServiceTime == 5
vrp_max_solve_time_seconds == 300

Abs(x) == IF x < 0 THEN -x ELSE x
Max2(a, b) == IF a >= b THEN a ELSE b
Min2(a, b) == IF a <= b THEN a ELSE b
Len0(f) == Cardinality(DOMAIN f)   \* len() of a 0-based list

IdOf(i) == IF i = 0 THEN "depot" ELSE <<"p1", "p2", "p3", "p4">>[i]

\* Location(...) as the dataclass builds it.
Location(id, lat, lon, demand, service, tws, twe) ==
  [id |-> id, lat |-> lat, lon |-> lon, demand |-> demand,
   service_time_minutes |-> service,
   time_window_start |-> tws, time_window_end |-> twe]

Vehicle(id, capacity) == [id |-> id, capacity |-> capacity]

----------------------------------------------------------------------------
\* Matrix builder.

num_locations == Len0(locations)
num_vehicles == Len0(vehicles)

\* haversine_distance for two points of one meridian (delta_lon = 0): the arc
\* R * |delta_lat| in radians.  For latitudes in 0.001 degree the result is
\* given in millimetres, that is in 1/1000000 km.
haversine_distance(lat1, lon1, lat2, lon2) ==
  MilliMetresPerMilliDegree * Abs(lat2 - lat1)

create_distance_matrix_UpperOnly(locs) ==
  [i \in DOMAIN locs |-> [j \in DOMAIN locs |->
     IF i < j
     THEN haversine_distance(locs[i].lat, locs[i].lon, locs[j].lat, locs[j].lon)
            \div MetresPerKm
     ELSE 0]]

\* int(dist_km * 1000): whole metres, truncated (millimetres divided by
\* 1000); the diagonal is not computed.
create_distance_matrix(locs) ==
  [i \in DOMAIN locs |-> [j \in DOMAIN locs |->
     IF i # j
     THEN haversine_distance(locs[i].lat, locs[i].lon, locs[j].lat, locs[j].lon)
            \div MetresPerKm
     ELSE 0]]

\* distance / speed_m_per_min divides by zero when the speed is 0 and some
\* off-diagonal entry exists.
TimeMatrixRaises(dm, speed) == speed = 0 /\ Len0(dm) >= 2

RECURSIVE Log2Floor(_, _)
\* The binary exponent of n / m, for n >= m > 0.
Log2Floor(n, m) == IF n < 2 * m THEN 0 ELSE 1 + Log2Floor(n, 2 * m)

RECURSIVE PowMod2(_, _)
\* 2^e modulo m.
PowMod2(e, m) == IF e = 0 THEN 1 % m ELSE (2 * PowMod2(e - 1, m)) % m

\* Python floats are binary64: a quotient is rounded to the nearest number of
\* 53 significant bits.  speed_m_per_min = (avg_speed_kmh * 1000) / 60 has
\* the significand round(n * 2^e / m) with n = speed * 1000, m = 60 and
\* e = 52 - Log2Floor(n, m); SpeedRemainder is what the division leaves.
SpeedRemainder(speed) ==
  LET n == speed * MetresPerKm
  IN (n * PowMod2(52 - Log2Floor(n, MinutesPerHour), MinutesPerHour))
       % MinutesPerHour

\* speed_m_per_min is above the exact quotient: the significand was rounded up.
SpeedRoundedUp(speed) == 2 * SpeedRemainder(speed) > MinutesPerHour

\* distance / speed_m_per_min for a distance whose exact travel time is the
\* whole number k >= 1, the speed being rounded up: the float quotient is
\* k * (1 - c / (n * 2^e + c)) with c = m - SpeedRemainder, and binary64 gives
\* a number below k when that deficit exceeds half the gap between k and the
\* float before it (2^(L - 52), or 2^(L - 53) when k = 2^L).
QuotientBelow(k, speed) ==
  LET n == speed * MetresPerKm
      E == Log2Floor(n, MinutesPerHour)
      L == Log2Floor(k, 1)
      p == IF k = 2 ^ L THEN 1 ELSE 0
  IN /\ SpeedRoundedUp(speed)
     /\ k * (MinutesPerHour - SpeedRemainder(speed)) * 2 ^ (E + 1 + p) > n * 2 ^ L

\* int(distance / speed_m_per_min): the whole minutes of the float quotient.
\* The quotient is below the exact travel time only when that is a whole
\* number and QuotientBelow holds; otherwise truncation gives the floor.
time_minutes(distance, speed) ==
  LET k == (distance * MinutesPerHour) \div (speed * MetresPerKm)
      whole == (distance * MinutesPerHour) % (speed * MetresPerKm) = 0
  IN IF whole /\ k >= 1 /\ QuotientBelow(k, speed) THEN k - 1 ELSE k

\* int(distance / ((avg_speed_kmh * 1000) / 60)) for a positive speed.
create_time_matrix(dm, speed) ==
  [i \in DOMAIN dm |-> [j \in DOMAIN dm |->
     IF i # j THEN time_minutes(dm[i][j], speed) ELSE 0]]

----------------------------------------------------------------------------
\* RoutingIndexManager(num_locations, num_vehicles, 0): one index per node,
\* vehicle 0 starts at the depot's index, every further vehicle has a start
\* index of its own, and every vehicle an end index after all of those.

Size == num_locations + num_vehicles - 1
Start(v) == IF v = 0 THEN 0 ELSE num_locations + v - 1
End(v) == Size + v
IsEnd(i) == i >= Size
IndexToNode_LastNode(i) == IF i < num_locations THEN i ELSE num_locations - 1
IndexToNode(i) == IF i < num_locations THEN i ELSE 0
NodeToIndex(node) == node

StopNodes == 1..(num_locations - 1)
VehicleIdxs == 0..(num_vehicles - 1)

----------------------------------------------------------------------------
\* The routing model optimize() assembles, as the set of assignments the
\* constraint solver may hand back.  An assignment is described by the path
\* of each vehicle: the sequence of stop nodes between its start and its end.

RECURSIVE InjSeqs(_, _)
\* Sequences of distinct elements of S of length at most k.
InjSeqs(S, k) ==
  IF k = 0 \/ S = {} THEN {<<>>}
  ELSE {<<>>} \cup UNION {{<<x>> \o t : t \in InjSeqs(S \ {x}, k - 1)} : x \in S}

Range(s) == {s[k] : k \in DOMAIN s}

AllPaths ==
  {ps \in [VehicleIdxs -> InjSeqs(StopNodes, Cardinality(StopNodes))] :
     \A v, w \in VehicleIdxs : v # w => Range(ps[v]) \cap Range(ps[w]) = {}}

\* The node before position k of path p, and the node at position k (the
\* depot closes the path at position Len(p) + 1).
NodeAt(p, k) == IF k = 0 \/ k > Len(p) THEN 0 ELSE p[k]

RECURSIVE PathDistance(_, _)
\* distance_callback summed over the first k arcs of the path.
PathDistance(p, k) ==
  IF k = 0 THEN 0
  ELSE PathDistance(p, k - 1) + distance_matrix[NodeAt(p, k - 1)][NodeAt(p, k)]

RouteLength(p) == PathDistance(p, Len(p) + 1)

demand_callback_Zero(node) == 0

\* demand_callback: the depot has no demand.
demand_callback(node) == IF node = 0 THEN 0 ELSE locations[node].demand

RECURSIVE PathLoad(_, _)
\* Capacity cumul after the first k nodes of the path.
PathLoad(p, k) ==
  IF k = 0 THEN 0 ELSE PathLoad(p, k - 1) + demand_callback(p[k])

CapacityOK_FirstVehicle(ps) ==
  \A v \in VehicleIdxs : \A k \in 0..Len(ps[v]) :
     PathLoad(ps[v], k) <= vehicles[0].capacity

\* AddDimensionWithVehicleCapacity(demand, 0, vehicle_capacities, True).
CapacityOK(ps) ==
  \A v \in VehicleIdxs : \A k \in 0..Len(ps[v]) :
     PathLoad(ps[v], k) <= vehicles[v].capacity

\* AddDimension(distance, 0, 100000000, True, 'Distance').
DistanceOK(ps) ==
  \A v \in VehicleIdxs : RouteLength(ps[v]) <= DistanceCeiling

\* time_callback: travel time plus the service time of the node left.
time_callback(from_node, to_node) ==
  time_matrix[from_node][to_node]
    + (IF from_node # 0 THEN locations[from_node].service_time_minutes ELSE 0)

HasWindow(node) ==
  /\ node # 0
  /\ locations[node].time_window_start # <<>>
  /\ locations[node].time_window_end # <<>>

WindowLo(node) == IF HasWindow(node) THEN locations[node].time_window_start[1] ELSE 0

WindowHi_Ignored(node) == TimeCeiling

\* The upper end of CumulVar(index) after SetRange, inside the dimension's
\* capacity.
WindowHi(node) ==
  IF HasWindow(node) THEN Min2(locations[node].time_window_end[1], TimeCeiling)
  ELSE TimeCeiling

RECURSIVE TimeReach(_, _, _, _)
\* The Time dimension along path p from position k on, the cumul of position
\* k - 1 ranging over lo..hi: every cumul is the previous one plus the transit
\* plus a slack of 0..30, inside 0..1440 and inside the node's window.
TimeReach(p, k, lo, hi) ==
  LET from == NodeAt(p, k - 1)
      to == NodeAt(p, k)
      isStop == k <= Len(p)
      lo2 == Max2(lo + time_callback(from, to), IF isStop THEN WindowLo(to) ELSE 0)
      hi2 == Min2(hi + time_callback(from, to) + TimeSlackMax,
                  IF isStop THEN WindowHi(to) ELSE TimeCeiling)
  IN /\ lo2 <= hi2
     /\ (isStop => TimeReach(p, k + 1, lo2, hi2))

RECURSIVE ReachLo(_, _)
\* The least value the Time cumul of position k of path p can take.
ReachLo(p, k) ==
  IF k = 0 THEN 0
  ELSE Max2(ReachLo(p, k - 1) + time_callback(NodeAt(p, k - 1), NodeAt(p, k)),
            IF k <= Len(p) THEN WindowLo(p[k]) ELSE 0)

RECURSIVE PathCumul(_, _)
\* One schedule the solver may fix for a feasible path: the end is reached as
\* early as possible, and every earlier cumul is the least one from which the
\* next is within the slack.
PathCumul(p, k) ==
  IF k = Len(p) + 1 THEN ReachLo(p, k)
  ELSE Max2(ReachLo(p, k),
            PathCumul(p, k + 1) - time_callback(NodeAt(p, k), NodeAt(p, k + 1))
              - TimeSlackMax)

TimeOK_FlagIgnored(ps) ==
  \A v \in VehicleIdxs : TimeReach(ps[v], 1, 0, TimeCeiling)

\* AddDimension(time, 30, 1440, False, 'Time') and the SetRange of each window.
TimeOK(ps) ==
  use_time_windows => \A v \in VehicleIdxs : TimeReach(ps[v], 1, 0, TimeCeiling)

FeasiblePaths == {ps \in AllPaths : CapacityOK(ps) /\ DistanceOK(ps) /\ TimeOK(ps)}

Served(ps) == UNION {Range(ps[v]) : v \in VehicleIdxs}

RECURSIVE SumOver(_, _)
SumOver(f, S) ==
  IF S = {} THEN 0 ELSE LET x == CHOOSE y \in S : TRUE IN f[x] + SumOver(f, S \ {x})

RECURSIVE MaxOver(_, _)
MaxOver(f, S) ==
  IF S = {} THEN 0 ELSE LET x == CHOOSE y \in S : TRUE IN Max2(f[x], MaxOver(f, S \ {x}))

\* The objective: arc costs, the global span of the Distance dimension (start
\* cumuls are fixed at zero, so the span is the longest route) times its
\* coefficient, and the penalty of every disjunction left unperformed.
Objective(ps) ==
  LET len == [v \in VehicleIdxs |-> RouteLength(ps[v])]
  IN SumOver(len, VehicleIdxs)
     + (IF balance_routes THEN SpanCoefficient * MaxOver(len, VehicleIdxs) ELSE 0)
     + penalty * Cardinality(StopNodes \ Served(ps))

\* NextVar of every index, for the paths ps; an unperformed node loops.
NextVars(ps) ==
  [i \in 0..(Size - 1) |->
     IF \E v \in VehicleIdxs : Start(v) = i
     THEN LET v == CHOOSE w \in VehicleIdxs : Start(w) = i
          IN IF ps[v] = <<>> THEN End(v) ELSE NodeToIndex(ps[v][1])
     ELSE IF i \in Served(ps)
     THEN LET v == CHOOSE w \in VehicleIdxs : i \in Range(ps[w])
              k == CHOOSE j \in DOMAIN ps[v] : ps[v][j] = i
          IN IF k = Len(ps[v]) THEN End(v) ELSE NodeToIndex(ps[v][k + 1])
     ELSE i]

\* CumulVar of the Distance dimension at every index.
DistanceCumuls(ps) ==
  [i \in 0..(Size + num_vehicles - 1) |->
     IF \E v \in VehicleIdxs : End(v) = i
     THEN RouteLength(ps[CHOOSE w \in VehicleIdxs : End(w) = i])
     ELSE IF i \in Served(ps)
     THEN LET v == CHOOSE w \in VehicleIdxs : i \in Range(ps[w])
              k == CHOOSE j \in DOMAIN ps[v] : ps[v][j] = i
          IN PathDistance(ps[v], k)
     ELSE 0]

\* CumulVar of the Time dimension at every index; <<>> when the dimension is
\* not added.  The cumul of an unperformed node is some value of its range.
TimeCumuls(ps) ==
  IF ~use_time_windows THEN <<>>
  ELSE [i \in 0..(Size + num_vehicles - 1) |->
          IF \E v \in VehicleIdxs : End(v) = i
          THEN LET v == CHOOSE w \in VehicleIdxs : End(w) = i
               IN PathCumul(ps[v], Len(ps[v]) + 1)
          ELSE IF \E v \in VehicleIdxs : Start(v) = i
          THEN PathCumul(ps[CHOOSE w \in VehicleIdxs : Start(w) = i], 0)
          ELSE IF i \in Served(ps)
          THEN LET v == CHOOSE w \in VehicleIdxs : i \in Range(ps[w])
                   k == CHOOSE j \in DOMAIN ps[v] : ps[v][j] = i
               IN PathCumul(ps[v], k)
          ELSE WindowLo(i)]

Assignment(ps) ==
  [next |-> NextVars(ps), distance_cumul |-> DistanceCumuls(ps),
   time_cumul |-> TimeCumuls(ps), objective |-> Objective(ps)]

MinObjective ==
  LET costs == {Objective(ps) : ps \in FeasiblePaths}
  IN CHOOSE c \in costs : \A d \in costs : c <= d

----------------------------------------------------------------------------
\* The values optimize() returns.

OptimizationResult(success, rs, un, dist, time, ms, error) ==
  [success |-> success, routes |-> rs, unassigned |-> un,
   total_distance |-> dist, total_time_minutes |-> time,
   solve_time_ms |-> ms, error |-> error]

\* OptimizationResult(success=False, error=...): every other field defaulted.
InputError ==
  OptimizationResult(FALSE, <<>>, <<>>, 0, 0, 0, <<"No locations or vehicles provided">>)

NoSolutionError_TimeDropped(ms) ==
  OptimizationResult(FALSE, <<>>, <<>>, 0, 0, 0, <<"No feasible solution found">>)

\* OptimizationResult(success=False, error=..., solve_time_ms=...).
NoSolutionError(ms) ==
  OptimizationResult(FALSE, <<>>, <<>>, 0, 0, ms, <<"No feasible solution found">>)

RouteStop(location, seq, arrival, cumulative_distance_m) ==
  [location_id |-> location.id, sequence |-> seq,
   lat |-> location.lat, lon |-> location.lon,
   arrival_time_minutes |-> arrival,
   departure_time_minutes |-> arrival + location.service_time_minutes,
   cumulative_distance |-> cumulative_distance_m,
   cumulative_time_minutes |-> arrival]

RECURSIVE GCD(_, _)
GCD(a, b) == IF b = 0 THEN a ELSE GCD(b, a % b)

IsPowerOf2(n) == n = 2 ^ Log2Floor(n, 1)

RECURSIVE Log2Ceil(_, _)
\* The least t with n * 2^t >= m, for n, m > 0.
Log2Ceil(n, m) == IF n >= m THEN 0 ELSE 1 + Log2Ceil(2 * n, m)

\* The binary exponent of n / m, for n, m > 0.
Log2(n, m) == IF n >= m THEN Log2Floor(n, m) ELSE -Log2Ceil(n, m)

\* Whether the float (demand / capacity) * 100 is the number
\* demand * 100 / capacity itself.  That number must have a finite binary
\* expansion; then demand / capacity is either exact, or rounded to 53 bits
\* with an error of errc / capacity units of the last place, and the product
\* with 100 is rounded back onto the number when 100 times the error is at
\* most half the gap between the floats around it.
PercentExact(demand, capacity) ==
  LET v == 100 * demand
      Lq == Log2(demand, capacity)
      LV == Log2(v, capacity)
      rho == (demand * PowMod2(52 - Lq, capacity)) % capacity
      down == 2 * rho < capacity
      errc == IF down THEN rho ELSE capacity - rho
      vpow2 == IsPowerOf2(v \div GCD(capacity, v))
      t == LV - Lq - 1 - (IF vpow2 /\ down THEN 1 ELSE 0)
  IN \/ demand = 0
     \/ /\ IsPowerOf2(capacity \div GCD(capacity, v))
        /\ (rho = 0 \/ 100 * errc <= capacity * 2 ^ t)

load_percentage_AsFraction(demand, capacity) ==
  IF capacity > 0
  THEN [num |-> demand, den |-> capacity, exact |-> TRUE]
  ELSE [num |-> 0, den |-> 1, exact |-> TRUE]

\* (route_demand / capacity) * 100 if capacity > 0 else 0: the float nearest
\* to num / den, and whether it is that number.
load_percentage(demand, capacity) ==
  IF capacity > 0
  THEN [num |-> demand * 100, den |-> capacity,
        exact |-> PercentExact(demand, capacity)]
  ELSE [num |-> 0, den |-> 1, exact |-> TRUE]

VehicleRoute(vehicle, ss, dist, time, demand) ==
  [vehicle_id |-> vehicle.id, stops |-> ss, total_distance |-> dist,
   total_time_minutes |-> time, total_demand |-> demand,
   load_percentage |-> load_percentage(demand, vehicle.capacity)]

----------------------------------------------------------------------------
\* The calls the model explores.

Depot == Location("depot", 0, 0, 0, 0, <<>>, <<>>)

Opt(w, k) == IF w = <<>> THEN <<>> ELSE <<w[k]>>

\* Every list of a depot followed by n stops; [] is the list of no location.
LocationLists ==
  {<<>>} \cup
  UNION {
    {[i \in 0..n |->
        IF i = 0 THEN Depot
        ELSE Location(IdOf(i), i * scale, 0, d[i], DefaultServiceTime,
                      Opt(w[i], 1), Opt(w[i], 2))] :
       scale \in LatScales, d \in [1..n -> Demands], w \in [1..n -> TimeWindows]}
    : n \in 0..MaxStops}

\* The same lists with the demands, scales and windows of the caller's choice.
LocationListsOver(D, S, W) ==
  {<<>>} \cup
  UNION {
    {[i \in 0..n |->
        IF i = 0 THEN Depot
        ELSE Location(IdOf(i), i * scale, 0, d[i], DefaultServiceTime,
                      Opt(w[i], 1), Opt(w[i], 2))] :
       scale \in S, d \in [1..n -> D], w \in [1..n -> W]}
    : n \in 0..MaxStops}

VehicleLists ==
  {<<>>} \cup
  UNION {
    {[v \in 0..(m - 1) |-> Vehicle(<<"v0", "v1", "v2", "v3">>[v + 1], c[v])] :
       c \in [0..(m - 1) -> Capacities]}
    : m \in 1..MaxVehicles}

Init ==
  /\ locations \in LocationLists
  /\ vehicles \in VehicleLists
  /\ use_time_windows \in BOOLEAN
  /\ balance_routes \in BOOLEAN
  /\ avg_speed_kmh \in Speeds
  /\ pc = "start"
  /\ distance_matrix = <<>>
  /\ time_matrix = <<>>
  /\ solver_calls = 0
  /\ solution = <<>>
  /\ solve_time_ms = 0
  /\ vehicle_idx = 0
  /\ index = 0
  /\ stops = <<>>
  /\ route_distance = 0
  /\ route_time = 0
  /\ route_demand = 0
  /\ sequence = 0
  /\ routes = <<>>
  /\ total_distance = 0
  /\ total_time = 0
  /\ result = <<>>
  /\ exception = <<>>
  /\ optimizer_instance = <<>>
  /\ requests = <<>>
  /\ ServicesIdle

\* Calls whose stops may have no demand: such a stop can ride on a vehicle
\* of capacity 0.
DemandsFromZero == {0, 1, 2}

InitZeroDemand ==
  /\ locations \in LocationListsOver(DemandsFromZero, {1}, {<<>>})
  /\ vehicles \in VehicleLists
  /\ use_time_windows = FALSE
  /\ balance_routes \in BOOLEAN
  /\ avg_speed_kmh = 30
  /\ pc = "start"
  /\ distance_matrix = <<>>
  /\ time_matrix = <<>>
  /\ solver_calls = 0
  /\ solution = <<>>
  /\ solve_time_ms = 0
  /\ vehicle_idx = 0
  /\ index = 0
  /\ stops = <<>>
  /\ route_distance = 0
  /\ route_time = 0
  /\ route_demand = 0
  /\ sequence = 0
  /\ routes = <<>>
  /\ total_distance = 0
  /\ total_time = 0
  /\ result = <<>>
  /\ exception = <<>>
  /\ optimizer_instance = <<>>
  /\ requests = <<>>
  /\ ServicesIdle

\* Calls with time windows that open after the start of the day.
LateWindows == {<<>>, <<10, 20>>}

InitLateWindows ==
  /\ locations \in LocationListsOver({1}, LatScales, LateWindows)
  /\ vehicles \in VehicleLists
  /\ use_time_windows = TRUE
  /\ balance_routes \in BOOLEAN
  /\ avg_speed_kmh = 30
  /\ pc = "start"
  /\ distance_matrix = <<>>
  /\ time_matrix = <<>>
  /\ solver_calls = 0
  /\ solution = <<>>
  /\ solve_time_ms = 0
  /\ vehicle_idx = 0
  /\ index = 0
  /\ stops = <<>>
  /\ route_distance = 0
  /\ route_time = 0
  /\ route_demand = 0
  /\ sequence = 0
  /\ routes = <<>>
  /\ total_distance = 0
  /\ total_time = 0
  /\ result = <<>>
  /\ exception = <<>>
  /\ optimizer_instance = <<>>
  /\ requests = <<>>
  /\ ServicesIdle

----------------------------------------------------------------------------
\* optimize(), step by step.

NoInput_AndForOr == num_locations = 0 /\ num_vehicles = 0

\* "not locations or not vehicles"
NoInput == num_locations = 0 \/ num_vehicles = 0

KeepRoute_DepotOnlyKept(ss) == Len(ss) > 0

KeepRoute_SingleStopSkipped(ss) == Len(ss) > 2

\* "len(stops) > 1": a route of the depot alone is skipped.
KeepRoute(ss) == Len(ss) > 1

\* Lines 188-199: the guard on empty input.
Validate ==
  /\ pc = "start"
  /\ IF NoInput
     THEN /\ result' = <<InputError>>
          /\ pc' = "done"
     ELSE /\ result' = result
          /\ pc' = "build"
  /\ UNCHANGED <<services, router, inputs, distance_matrix, time_matrix, solver_calls, solution,
                 solve_time_ms, walk, exception>>

\* Lines 202-203: the two matrices; a zero speed raises ZeroDivisionError.
BuildMatrices ==
  /\ pc = "build"
  /\ distance_matrix' = create_distance_matrix(locations)
  /\ IF TimeMatrixRaises(distance_matrix', avg_speed_kmh)
     THEN /\ time_matrix' = time_matrix
          /\ exception' = <<"ZeroDivisionError">>
          /\ pc' = "raised"
     ELSE /\ time_matrix' = create_time_matrix(distance_matrix', avg_speed_kmh)
          /\ exception' = exception
          /\ pc' = "solve"
  /\ UNCHANGED <<services, router, inputs, solver_calls, solution, solve_time_ms, walk, result>>

\* Lines 205-317, 320-331: the solver hands back an assignment; the walk of
\* vehicle 0 is set up.
SolveFound ==
  /\ pc = "solve"
  /\ solver_calls' = solver_calls + 1
  /\ \E ps \in FeasiblePaths : solution' = <<Assignment(ps)>>
  /\ \E ms \in SolveTimesMs : solve_time_ms' = ms
  /\ routes' = <<>>
  /\ total_distance' = 0
  /\ total_time' = 0
  /\ vehicle_idx' = 0
  /\ index' = Start(0)
  /\ stops' = <<>>
  /\ route_distance' = 0
  /\ route_time' = 0
  /\ route_demand' = 0
  /\ sequence' = 0
  /\ pc' = "walk"
  /\ UNCHANGED <<services, router, inputs, distance_matrix, time_matrix, result, exception>>

\* Lines 205-317: the solver hands back nothing.
SolveNone ==
  /\ pc = "solve"
  /\ solver_calls' = solver_calls + 1
  /\ solution' = <<[next |-> <<>>]>>
  /\ \E ms \in SolveTimesMs :
       /\ solve_time_ms' = ms
       /\ result' = <<NoSolutionError(ms)>>
  /\ pc' = "done"
  /\ UNCHANGED <<services, router, inputs, distance_matrix, time_matrix, walk, exception>>

Found == solution # <<>> /\ solution[1].next # <<>>

GetArcCostForVehicle_NoReturnArc(from_index, to_index, vehicle) ==
  IF IsEnd(to_index) THEN 0
  ELSE distance_matrix[IndexToNode(from_index)][IndexToNode(to_index)]

\* Lines 216-223, 358-360: the arc cost of every vehicle is distance_callback.
GetArcCostForVehicle(from_index, to_index, vehicle) ==
  distance_matrix[IndexToNode(from_index)][IndexToNode(to_index)]

\* Lines 333-362: one turn of the while loop.
WalkStep ==
  /\ pc = "walk"
  /\ ~IsEnd(index)
  /\ LET node == IndexToNode(index)
         location == locations[node]
         next == solution[1].next[index]
     IN /\ stops' = Append(stops,
                      RouteStop(location, sequence, route_time,
                                solution[1].distance_cumul[index]))
        /\ route_demand' = IF node # 0 THEN route_demand + location.demand
                           ELSE route_demand
        /\ index' = next
        /\ route_distance' =
             route_distance + GetArcCostForVehicle(index, next, vehicle_idx)
        /\ route_time' =
             route_time + time_matrix[IndexToNode(index)][IndexToNode(next)]
        /\ sequence' = sequence + 1
  /\ UNCHANGED <<services, router, inputs, pc, distance_matrix, time_matrix, solver_calls, solution,
                 solve_time_ms, vehicle_idx, routes, total_distance, total_time,
                 result, exception>>

Accumulate_Overwrite(total, amount) == amount

\* Lines 378-379: "total_distance += ..." and "total_time += ...".
Accumulate(total, amount) == total + amount

\* Lines 364-379 and 325-331: the walk reached the end index; the route is
\* kept unless it holds the depot alone, and the next vehicle's walk is set up.
EndRoute ==
  /\ pc = "walk"
  /\ IsEnd(index)
  /\ IF KeepRoute(stops)
     THEN /\ routes' = Append(routes,
                         VehicleRoute(vehicles[vehicle_idx], stops, route_distance,
                                      route_time, route_demand))
          /\ total_distance' = Accumulate(total_distance, route_distance)
          /\ total_time' = Accumulate(total_time, route_time)
     ELSE UNCHANGED <<routes, total_distance, total_time>>
  /\ vehicle_idx' = vehicle_idx + 1
  /\ IF vehicle_idx + 1 < num_vehicles
     THEN /\ index' = Start(vehicle_idx + 1)
          /\ stops' = <<>>
          /\ route_distance' = 0
          /\ route_time' = 0
          /\ route_demand' = 0
          /\ sequence' = 0
          /\ pc' = "walk"
     ELSE /\ UNCHANGED <<index, stops, route_distance, route_time, route_demand,
                         sequence>>
          /\ pc' = "unassigned"
  /\ UNCHANGED <<services, router, inputs, distance_matrix, time_matrix, solver_calls, solution,
                 solve_time_ms, result, exception>>

RECURSIVE UnassignedFrom_EndTest(_, _)
UnassignedFrom_EndTest(next, node) ==
  IF node >= num_locations THEN <<>>
  ELSE (IF IsEnd(next[NodeToIndex(node)])
        THEN <<locations[node].id>> ELSE <<>>)
       \o UnassignedFrom_EndTest(next, node + 1)

RECURSIVE UnassignedFrom(_, _)
\* Lines 381-385: the ids of the nodes from node on whose NextVar is the
\* node's own index.
UnassignedFrom(next, node) ==
  IF node >= num_locations THEN <<>>
  ELSE (IF next[NodeToIndex(node)] = NodeToIndex(node)
        THEN <<locations[node].id>> ELSE <<>>)
       \o UnassignedFrom(next, node + 1)

\* Lines 381-399: the unassigned list and the result.
Finish ==
  /\ pc = "unassigned"
  /\ result' = <<OptimizationResult(TRUE, routes, UnassignedFrom(solution[1].next, 1),
                                    total_distance, total_time, solve_time_ms, <<>>)>>
  /\ pc' = "done"
  /\ UNCHANGED <<services, router, inputs, distance_matrix, time_matrix, solver_calls, solution,
                 solve_time_ms, walk, exception>>

Next ==
  \/ Validate
  \/ BuildMatrices
  \/ SolveFound
  \/ SolveNone
  \/ WalkStep
  \/ EndRoute
  \/ Finish

Spec == Init /\ [][Next]_vars

SpecZeroDemand == InitZeroDemand /\ [][Next]_vars

SpecLateWindows == InitLateWindows /\ [][Next]_vars

\* optimize() is straight-line code around one bounded solver call and loops
\* over finite paths: a step that can be taken is taken.
SpecFair == Init /\ [][Next]_vars /\ WF_vars(Next)

----------------------------------------------------------------------------
\* Two calls whose inputs differ only in the timing fields of the stops: the
\* second call's locations replace the first's while the routing model is
\* being assembled, which lets one step compare the two models.

ServiceTimes == {DefaultServiceTime, 20}

\* The same call, one stop's window and service time replaced.
VaryTiming ==
  /\ pc = "solve"
  /\ \E n \in StopNodes, w \in TimeWindows, service \in ServiceTimes :
       /\ locations' = [locations EXCEPT
                          ![n].time_window_start = Opt(w, 1),
                          ![n].time_window_end = Opt(w, 2),
                          ![n].service_time_minutes = service]
       /\ locations' # locations
  /\ UNCHANGED <<services, router, vehicles, use_time_windows, balance_routes, avg_speed_kmh,
                 pc, distance_matrix, time_matrix, solver_calls, solution,
                 solve_time_ms, walk, result, exception>>

\* The calls compared: unit demands, one or two vehicles.
TwoCallVehicleLists == {vs \in VehicleLists : Len0(vs) <= 2}

InitTwoCalls ==
  /\ locations \in LocationListsOver({1}, LatScales, {<<>>})
  /\ vehicles \in TwoCallVehicleLists
  /\ use_time_windows \in BOOLEAN
  /\ balance_routes \in BOOLEAN
  /\ avg_speed_kmh = 30
  /\ pc = "start"
  /\ distance_matrix = <<>>
  /\ time_matrix = <<>>
  /\ solver_calls = 0
  /\ solution = <<>>
  /\ solve_time_ms = 0
  /\ vehicle_idx = 0
  /\ index = 0
  /\ stops = <<>>
  /\ route_distance = 0
  /\ route_time = 0
  /\ route_demand = 0
  /\ sequence = 0
  /\ routes = <<>>
  /\ total_distance = 0
  /\ total_time = 0
  /\ result = <<>>
  /\ exception = <<>>
  /\ optimizer_instance = <<>>
  /\ requests = <<>>
  /\ ServicesIdle

NextTwoCalls ==
  \/ Validate
  \/ BuildMatrices
  \/ VaryTiming

SpecTwoCalls == InitTwoCalls /\ [][NextTwoCalls]_vars

----------------------------------------------------------------------------
\* create_time_matrix on its own: any distance matrix, any positive speed.

Distances == {0, 250, 500, 17500}   \* metres
PositiveSpeeds == {1, 30, 70}       \* km/h

\* Symmetric matrices with a zero diagonal over up to MaxStops + 1 locations.
DistanceMatrices ==
  UNION {
    {[i \in 0..(n - 1) |-> [j \in 0..(n - 1) |->
        IF i = j THEN 0 ELSE d[<<Min2(i, j), Max2(i, j)>>]]] :
       d \in [{ij \in (0..(n - 1)) \X (0..(n - 1)) : ij[1] < ij[2]} -> Distances]}
    : n \in 1..(MaxStops + 1)}

InitTimeMatrix ==
  /\ locations = <<>>
  /\ vehicles = <<>>
  /\ use_time_windows = FALSE
  /\ balance_routes = FALSE
  /\ avg_speed_kmh \in PositiveSpeeds
  /\ pc = "time"
  /\ distance_matrix \in DistanceMatrices
  /\ time_matrix = <<>>
  /\ solver_calls = 0
  /\ solution = <<>>
  /\ solve_time_ms = 0
  /\ vehicle_idx = 0
  /\ index = 0
  /\ stops = <<>>
  /\ route_distance = 0
  /\ route_time = 0
  /\ route_demand = 0
  /\ sequence = 0
  /\ routes = <<>>
  /\ total_distance = 0
  /\ total_time = 0
  /\ result = <<>>
  /\ exception = <<>>
  /\ optimizer_instance = <<>>
  /\ requests = <<>>
  /\ ServicesIdle

\* Lines 142-165: one call of create_time_matrix.
CreateTimeMatrix ==
  /\ pc = "time"
  /\ time_matrix' = create_time_matrix(distance_matrix, avg_speed_kmh)
  /\ pc' = "timed"
  /\ UNCHANGED <<services, router, inputs, distance_matrix, solver_calls, solution, solve_time_ms,
                 walk, result, exception>>

SpecTimeMatrix == InitTimeMatrix /\ [][CreateTimeMatrix]_vars

----------------------------------------------------------------------------
\* POST /optimize (routers/routing.py, optimize_routes): requests are
\* coroutines of one event loop, so they interleave at their awaits only.
\* The lines from get_vrp_optimizer() to the return of optimize() hold no
\* await and run as one step.

SolveLimits == {10, 300, 600}   \* max_solve_time_seconds: ge=10, le=600

\* VRPOptimizer(): the fields __init__ sets that a solve reads.  set_by is
\* history: the request that wrote max_solve_time last (0: __init__).
VRPOptimizer == [max_solve_time |-> vrp_max_solve_time_seconds, set_by |-> 0]

\* get_vrp_optimizer(): the singleton, created on first use.
get_vrp_optimizer(instance) == IF instance = <<>> THEN VRPOptimizer ELSE instance[1]

SetMaxSolveTime_Skipped(optimizer, r, seconds) == optimizer

\* "optimizer.max_solve_time = request.max_solve_time_seconds", by request r.
SetMaxSolveTime(optimizer, r, seconds) ==
  [optimizer EXCEPT !.max_solve_time = seconds, !.set_by = r]

\* A request that has not run yet; time_limit is what its solve ran with and
\* limit_set_by the writer of the value read, <<>> until the solve ran.
Request(seconds) ==
  [max_solve_time_seconds |-> seconds, pc |-> "fetch",
   time_limit |-> <<>>, limit_set_by |-> <<>>]

InitRequests ==
  /\ \E n \in 1..MaxRequests :
       requests \in [1..n -> {Request(seconds) : seconds \in SolveLimits}]
  /\ optimizer_instance = <<>>
  /\ ServicesIdle
  /\ locations = <<>>
  /\ vehicles = <<>>
  /\ use_time_windows = FALSE
  /\ balance_routes = FALSE
  /\ avg_speed_kmh = 30
  /\ pc = "idle"
  /\ distance_matrix = <<>>
  /\ time_matrix = <<>>
  /\ solver_calls = 0
  /\ solution = <<>>
  /\ solve_time_ms = 0
  /\ vehicle_idx = 0
  /\ index = 0
  /\ stops = <<>>
  /\ route_distance = 0
  /\ route_time = 0
  /\ route_demand = 0
  /\ sequence = 0
  /\ routes = <<>>
  /\ total_distance = 0
  /\ total_time = 0
  /\ result = <<>>
  /\ exception = <<>>

\* routing.py lines 55-173: vehicles and packages are awaited from the
\* database and the optimizer's arguments are built.
FetchData(r) ==
  /\ requests[r].pc = "fetch"
  /\ requests' = [requests EXCEPT ![r].pc = "optimize"]
  /\ UNCHANGED <<optimizer_instance, call, services>>

\* routing.py lines 176-184 with vrp_optimizer.py line 303: the singleton is
\* fetched, its limit is set, and optimize() reads self.max_solve_time into
\* the search parameters.
RunOptimizer(r) ==
  /\ requests[r].pc = "optimize"
  /\ LET optimizer == SetMaxSolveTime(get_vrp_optimizer(optimizer_instance), r,
                                      requests[r].max_solve_time_seconds)
     IN /\ optimizer_instance' = <<optimizer>>
        /\ requests' = [requests EXCEPT ![r].pc = "persist",
                                        ![r].time_limit = <<optimizer.max_solve_time>>,
                                        ![r].limit_set_by = <<optimizer.set_by>>]
  /\ UNCHANGED <<call, services>>

\* routing.py lines 186-309: the routes are written with awaits in between.
Persist(r) ==
  /\ requests[r].pc = "persist"
  /\ requests' = [requests EXCEPT ![r].pc = "done"]
  /\ UNCHANGED <<optimizer_instance, call, services>>

NextRequests ==
  \/ \E r \in DOMAIN requests : FetchData(r)
  \/ \E r \in DOMAIN requests : RunOptimizer(r)
  \/ \E r \in DOMAIN requests : Persist(r)

SpecRequests == InitRequests /\ [][NextRequests]_vars

----------------------------------------------------------------------------
\* POST /optimize and the database (routers/routing.py, optimize_routes, with
\* db/repositories.py).  Every request has a session of its own: what it
\* writes stays in the session (written) and reaches the committed rows (db)
\* at its commit.  Requests interleave at their awaits.  The optimizer is
\* taken by its contract here: it fails, or it puts every location on one
\* vehicle's route or in unassigned.

PackageCodes == {IdOf(i) : i \in 1..MaxStops}
Fleet == {"v0"}                       \* vehicle_id of the vehicles
SelectableStatuses == {"geocoded", "parsed"}
StoredStatuses == {"geocoded", "parsed"}

\* A row of vehicles_data: id is the database key, None for a vehicle that
\* came inline with the request.
VehicleData(id, vehicle_id) == [id |-> id, vehicle_id |-> vehicle_id]

\* Lines 57-68: request.vehicles, each with "id": None.
InlineVehicles == {VehicleData(<<>>, v) : v \in Fleet}

\* VehicleRepository.get_active(): the active vehicles with their keys.
get_active(database) == {VehicleData(<<v>>, v) : v \in database.vehicles}

\* The two SELECTs of lines 79-119: the packages with a located address and
\* status geocoded or parsed, among package_ids when the request names some.
SelectPackagesForRouting(database, package_ids) ==
  {p \in PackageCodes :
     /\ package_ids # <<>> => p \in package_ids[1]
     /\ p \in database.located
     /\ database.packages[p] \in SelectableStatuses}

\* What optimize() can return for these packages and vehicles.
OptRoute(vehicle_id, stop_ids) == [vehicle_id |-> vehicle_id, stops |-> stop_ids]

OptResults(packages_data, vehicles_data) ==
  {[success |-> FALSE, routes |-> {}, unassigned |-> {}]} \cup
  {[success |-> TRUE,
    routes |-> {OptRoute(v, {p \in packages_data : a[p] = v}) :
                  v \in {a[p] : p \in packages_data} \ {"unassigned"}},
    unassigned |-> {p \in packages_data : a[p] = "unassigned"}] :
     a \in [packages_data ->
              {v.vehicle_id : v \in vehicles_data} \cup {"unassigned"}]}

\* RouteOptimizeResponse, and the HTTPException of line 73.
RouteOptimizeResponse(success, rs, unassigned_packages, total_packages) ==
  [status_code |-> 200, success |-> success, routes |-> rs,
   unassigned_packages |-> unassigned_packages,
   total_packages |-> total_packages]

NoVehicles == [status_code |-> 400, success |-> FALSE, routes |-> {},
               unassigned_packages |-> {}, total_packages |-> 0]

\* Lines 186-195: the answer to a failed optimization.
FailureResponse_FromResult(packages_data, opt_result) ==
  RouteOptimizeResponse(FALSE, {}, opt_result.unassigned,
                        Cardinality(packages_data))

FailureResponse(packages_data, opt_result) ==
  RouteOptimizeResponse(FALSE, {}, packages_data, Cardinality(packages_data))

\* Nothing written in the session.
NoWrites == [routes |-> {}, route_stops |-> {}, routed |-> {}]

\* A request as it arrives.
Handler(inline, package_ids) ==
  [inline |-> inline, package_ids |-> package_ids, pc |-> "vehicles",
   vehicles_data |-> {}, packages_data |-> {}, opt_result |-> <<>>,
   written |-> NoWrites, response |-> <<>>]

\* Requests are interchangeable; they are numbered in the order of their
\* parameters.
HandlerRank(handler) ==
  (IF handler.inline THEN 2 ELSE 0) + (IF handler.package_ids = <<>> THEN 0 ELSE 1)

\* The committed rows.  routed_by is history: the requests whose committed
\* UPDATE set a package's status.
Database(statuses, active) ==
  [packages |-> statuses,
   located |-> {p \in PackageCodes : statuses[p] = "geocoded"},
   vehicles |-> active,
   routes |-> {}, route_stops |-> {}, routed_by |-> {}]

InitRouting ==
  /\ \E statuses \in [PackageCodes -> StoredStatuses], active \in {{}, Fleet} :
       db = Database(statuses, active)
  /\ \E n \in 1..MaxRequests :
       /\ handlers \in [1..n -> {Handler(inline, ids) :
                                   inline \in BOOLEAN,
                                   ids \in {<<>>, <<{IdOf(1)}>>}}]
       /\ \A g, h \in 1..n : g < h => HandlerRank(handlers[g]) <= HandlerRank(handlers[h])
  /\ ingests = <<>>
  /\ geocoder = <<>>
  /\ worker = <<>>
  /\ optimizer_instance = <<>>
  /\ requests = <<>>
  /\ locations = <<>>
  /\ vehicles = <<>>
  /\ use_time_windows = FALSE
  /\ balance_routes = FALSE
  /\ avg_speed_kmh = 30
  /\ pc = "idle"
  /\ distance_matrix = <<>>
  /\ time_matrix = <<>>
  /\ solver_calls = 0
  /\ solution = <<>>
  /\ solve_time_ms = 0
  /\ vehicle_idx = 0
  /\ index = 0
  /\ stops = <<>>
  /\ route_distance = 0
  /\ route_time = 0
  /\ route_demand = 0
  /\ sequence = 0
  /\ routes = <<>>
  /\ total_distance = 0
  /\ total_time = 0
  /\ result = <<>>
  /\ exception = <<>>

\* Lines 57-76: the vehicles, inline or from the database; 400 without any.
GetVehicles(h) ==
  /\ handlers[h].pc = "vehicles"
  /\ LET vehicles_data == IF handlers[h].inline THEN InlineVehicles
                          ELSE get_active(db)
     IN handlers' = [handlers EXCEPT
          ![h].vehicles_data = vehicles_data,
          ![h].pc = IF vehicles_data = {} THEN "done" ELSE "packages",
          ![h].response = IF vehicles_data = {} THEN <<NoVehicles>> ELSE <<>>]
  /\ UNCHANGED <<db, router, call, ingests, geocoder, worker>>

\* Lines 78-134: the packages to route, read from the committed rows; the
\* request ends here when there are none.
GetPackages(h) ==
  /\ handlers[h].pc = "packages"
  /\ LET packages_data == SelectPackagesForRouting(db, handlers[h].package_ids)
     IN handlers' = [handlers EXCEPT
          ![h].packages_data = packages_data,
          ![h].pc = IF packages_data = {} THEN "done" ELSE "optimize",
          ![h].response = IF packages_data = {}
                          THEN <<RouteOptimizeResponse(TRUE, {}, {}, 0)>>
                          ELSE <<>>]
  /\ UNCHANGED <<db, router, call, ingests, geocoder, worker>>

\* Lines 176-195: optimize() runs; a failure is answered at once.
Optimize(h) ==
  /\ handlers[h].pc = "optimize"
  /\ \E opt_result \in OptResults(handlers[h].packages_data,
                                  handlers[h].vehicles_data) :
       handlers' = [handlers EXCEPT
         ![h].opt_result = <<opt_result>>,
         ![h].pc = IF opt_result.success THEN "routes" ELSE "done",
         ![h].response =
            IF opt_result.success THEN <<>>
            ELSE <<FailureResponse(handlers[h].packages_data, opt_result)>>]
  /\ UNCHANGED <<db, router, call, ingests, geocoder, worker>>

\* Line 202: the vehicles_data row of a route's vehicle.
VehicleDataOf(h, vehicle_id) ==
  CHOOSE v \in handlers[h].vehicles_data : v.vehicle_id = vehicle_id

\* Lines 211-223: the key of the route row, None without a vehicle key.
RouteIdOf(h, opt_route) ==
  IF VehicleDataOf(h, opt_route.vehicle_id).id # <<>>
  THEN <<<<h, opt_route.vehicle_id>>>>
  ELSE <<>>

\* Lines 200-283: route_repo.create and route_repo.add_stop for the routes
\* that have a key.
WriteRoutes(h) ==
  /\ handlers[h].pc = "routes"
  /\ LET opt_routes == handlers[h].opt_result[1].routes
         keyed == {r \in opt_routes : RouteIdOf(h, r) # <<>>}
     IN handlers' = [handlers EXCEPT
          ![h].written.routes =
             {[id |-> RouteIdOf(h, r)[1], vehicle_id |-> r.vehicle_id] : r \in keyed},
          ![h].written.route_stops =
             UNION {{[route_id |-> RouteIdOf(h, r)[1], package_id |-> p] :
                       p \in r.stops} : r \in keyed},
          ![h].pc = "statuses"]
  /\ UNCHANGED <<db, router, call, ingests, geocoder, worker>>

\* Packages whose row another session has updated and not yet committed.
LockedByOthers(h) ==
  UNION {handlers[g].written.routed : g \in DOMAIN handlers \ {h}}

\* Lines 285-295: UPDATE packages SET status = 'routed' for every stop of
\* every route; an UPDATE waits for the row's uncommitted writer.
StopsToMark_Unassigned(opt_result) == opt_result.unassigned

StopsToMark(opt_result) == UNION {r.stops : r \in opt_result.routes}

UpdateStatuses(h) ==
  /\ handlers[h].pc = "statuses"
  /\ LET routed == StopsToMark(handlers[h].opt_result[1])
     IN /\ routed \cap LockedByOthers(h) = {}
        /\ handlers' = [handlers EXCEPT ![h].written.routed = routed,
                                        ![h].pc = "commit"]
  /\ UNCHANGED <<db, router, call, ingests, geocoder, worker>>

\* Lines 297-309: db.commit() and the answer.
Commit(h) ==
  /\ handlers[h].pc = "commit"
  /\ LET w == handlers[h].written
         opt_result == handlers[h].opt_result[1]
     IN /\ db' = [db EXCEPT
               !.packages = [p \in PackageCodes |->
                               IF p \in w.routed THEN "routed" ELSE @[p]],
               !.routes = @ \cup w.routes,
               !.route_stops = @ \cup w.route_stops,
               !.routed_by = @ \cup {<<h, p>> : p \in w.routed}]
        /\ handlers' = [handlers EXCEPT
             ![h].written = NoWrites,
             ![h].pc = "done",
             ![h].response = <<RouteOptimizeResponse(
                 TRUE, opt_result.routes, opt_result.unassigned,
                 Cardinality(handlers[h].packages_data))>>]
  /\ UNCHANGED <<router, call, ingests, geocoder, worker>>

NextRouting ==
  \/ \E h \in DOMAIN handlers : GetVehicles(h)
  \/ \E h \in DOMAIN handlers : GetPackages(h)
  \/ \E h \in DOMAIN handlers : Optimize(h)
  \/ \E h \in DOMAIN handlers : WriteRoutes(h)
  \/ \E h \in DOMAIN handlers : UpdateStatuses(h)
  \/ \E h \in DOMAIN handlers : Commit(h)

SpecRouting == InitRouting /\ [][NextRouting]_vars

----------------------------------------------------------------------------
\* POST /ocr-text (routers/ingest.py, ingest_ocr_text).  The request writes
\* the package row, the address row and the final status in its own session
\* and commits once; an exception on the way rolls the session back.

\* optimize() is not running.
OptimizerIdle ==
  /\ optimizer_instance = <<>>
  /\ requests = <<>>
  /\ locations = <<>>
  /\ vehicles = <<>>
  /\ use_time_windows = FALSE
  /\ balance_routes = FALSE
  /\ avg_speed_kmh = 30
  /\ pc = "idle"
  /\ distance_matrix = <<>>
  /\ time_matrix = <<>>
  /\ solver_calls = 0
  /\ solution = <<>>
  /\ solve_time_ms = 0
  /\ vehicle_idx = 0
  /\ index = 0
  /\ stops = <<>>
  /\ route_distance = 0
  /\ route_time = 0
  /\ route_demand = 0
  /\ sequence = 0
  /\ routes = <<>>
  /\ total_distance = 0
  /\ total_time = 0
  /\ result = <<>>
  /\ exception = <<>>

IngestIds == {"p1", "p2"}        \* request.package_id
ParseConfidences == {3, 5, 7}    \* parse_result.confidence, in tenths
ParsedAbove == 5                 \* "parse_result.confidence > 0.5", in tenths

\* A row of packages and a row of addresses; by is history, the request
\* that inserted the row (0: it was there before).
PackageRow(package_id, status, by) ==
  [package_id |-> package_id, status |-> status, by |-> by]
AddressRow(package_id, by) == [package_id |-> package_id, by |-> by]

\* Lines 129-134: the status the request gives the package.
StatusAfterIngest_ParsedAtHalf(geocoded, confidence) ==
  IF geocoded THEN "geocoded"
  ELSE IF confidence >= ParsedAbove THEN "parsed"
  ELSE "verification_needed"

StatusAfterIngest(geocoded, confidence) ==
  IF geocoded THEN "geocoded"
  ELSE IF confidence > ParsedAbove THEN "parsed"
  ELSE "verification_needed"

\* PackageIngestResponse, and the HTTPExceptions (409, 500).
IngestResponse(status_code, status) ==
  [status_code |-> status_code, status |-> status]

\* Nothing written in the session.
NoIngestWrites == [package |-> <<>>, address |-> FALSE]

\* A request as it arrives; existed is what its duplicate check saw.
Ingest(package_id, confidence) ==
  [package_id |-> package_id, confidence |-> confidence, pc |-> "check",
   existed |-> <<>>, geocoded |-> FALSE, written |-> NoIngestWrites,
   response |-> <<>>]

\* The committed rows; unique says whether packages.package_id carries a
\* unique constraint (the schema is not part of the sources).
InitIngest ==
  /\ \E existing \in SUBSET {"p1"}, unique \in BOOLEAN :
       db = [packages |-> {PackageRow(p, "geocoded", 0) : p \in existing},
             addresses |-> {AddressRow(p, 0) : p \in existing},
             unique |-> unique]
  /\ \E n \in 1..MaxRequests :
       ingests \in [1..n -> {Ingest(p, c) : p \in IngestIds, c \in ParseConfidences}]
  /\ handlers = <<>>
  /\ geocoder = <<>>
  /\ worker = <<>>
  /\ OptimizerIdle

\* PackageRepository.get_by_package_id on the committed rows.
get_by_package_id(database, package_id) ==
  {row \in database.packages : row.package_id = package_id}

\* Lines 51-56: the duplicate check; 409 when the package exists.
CheckExisting(i) ==
  /\ ingests[i].pc = "check"
  /\ LET existing == get_by_package_id(db, ingests[i].package_id) # {}
     IN ingests' = [ingests EXCEPT
          ![i].existed = <<existing>>,
          ![i].pc = IF existing THEN "done" ELSE "create",
          ![i].response = IF existing THEN <<IngestResponse(409, <<>>)>> ELSE <<>>]
  /\ UNCHANGED <<db, handlers, geocoder, worker, router, call>>

\* Another session holds an uncommitted row with this package_id.
InsertPending(i) ==
  \E j \in DOMAIN ingests \ {i} :
    /\ ingests[j].written.package # <<>>
    /\ ingests[j].package_id = ingests[i].package_id

\* Lines 153-156: "except Exception": rollback and 500.
Rollback(request) ==
  [request EXCEPT !.written = NoIngestWrites, !.pc = "done",
                  !.response = <<IngestResponse(500, <<>>)>>]

\* Lines 59-68: PackageRepository.create, INSERT ... 'pending'.  Under a
\* unique constraint the INSERT waits for a pending INSERT of the same
\* package_id and raises when that row is committed.
CreatePackage(i) ==
  /\ ingests[i].pc = "create"
  /\ db.unique => ~InsertPending(i)
  /\ ingests' =
       IF db.unique /\ get_by_package_id(db, ingests[i].package_id) # {}
       THEN [ingests EXCEPT ![i] = Rollback(@)]
       ELSE [ingests EXCEPT ![i].written.package = <<"pending">>,
                            ![i].pc = "geocode"]
  /\ UNCHANGED <<db, handlers, geocoder, worker, router, call>>

\* Lines 72-105: parse, then geocode when a city or subdistrict was parsed;
\* geocode returns a result or None, or raises, which is caught here.
GeocodeOutcomes == {"skipped", "found", "none", "raised"}

GeocodeForIngest(i) ==
  /\ ingests[i].pc = "geocode"
  /\ \E outcome \in GeocodeOutcomes :
       ingests' = [ingests EXCEPT ![i].geocoded = (outcome = "found"),
                                  ![i].pc = "address"]
  /\ UNCHANGED <<db, handlers, geocoder, worker, router, call>>

\* Lines 108-126: AddressRepository.create.
CreateAddress(i) ==
  /\ ingests[i].pc = "address"
  /\ ingests' = [ingests EXCEPT ![i].written.address = TRUE, ![i].pc = "status"]
  /\ UNCHANGED <<db, handlers, geocoder, worker, router, call>>

\* Lines 128-136: PackageRepository.update_status with the final status.
UpdateStatus(i) ==
  /\ ingests[i].pc = "status"
  /\ ingests' = [ingests EXCEPT
       ![i].written.package =
          <<StatusAfterIngest(ingests[i].geocoded, ingests[i].confidence)>>,
       ![i].pc = "commit"]
  /\ UNCHANGED <<db, handlers, geocoder, worker, router, call>>

\* Lines 138-149: db.commit() and the response.
CommitIngest(i) ==
  /\ ingests[i].pc = "commit"
  /\ LET w == ingests[i].written
     IN /\ db' = [db EXCEPT
               !.packages = @ \cup {PackageRow(ingests[i].package_id, w.package[1], i)},
               !.addresses = @ \cup {AddressRow(ingests[i].package_id, i)}]
        /\ ingests' = [ingests EXCEPT
             ![i].written = NoIngestWrites,
             ![i].pc = "done",
             ![i].response = <<IngestResponse(200, w.package)>>]
  /\ UNCHANGED <<handlers, geocoder, worker, router, call>>

\* An await on the database raises (lines 51, 59, 109, 136, 138): the
\* handler of lines 153-156 runs.
RaiseInIngest(i) ==
  /\ ingests[i].pc \in {"check", "create", "address", "status", "commit"}
  /\ ingests' = [ingests EXCEPT ![i] = Rollback(@)]
  /\ UNCHANGED <<db, handlers, geocoder, worker, router, call>>

NextIngest ==
  \/ \E i \in DOMAIN ingests : CheckExisting(i)
  \/ \E i \in DOMAIN ingests : CreatePackage(i)
  \/ \E i \in DOMAIN ingests : GeocodeForIngest(i)
  \/ \E i \in DOMAIN ingests : CreateAddress(i)
  \/ \E i \in DOMAIN ingests : UpdateStatus(i)
  \/ \E i \in DOMAIN ingests : CommitIngest(i)
  \/ \E i \in DOMAIN ingests : RaiseInIngest(i)

SpecIngest == InitIngest /\ [][NextIngest]_vars

----------------------------------------------------------------------------
\* Geocoder (services/geocoder.py): geocode() with its cache, the retried
\* provider call and the rate limiter.  Callers are coroutines of one event
\* loop and interleave at their awaits.  Time is counted in ticks of
\* 1 / TicksPerSecond seconds; the provider is nominatim, use_cache is True.

TicksPerSecond == 2
MaxClock == 9                    \* the clock stops here
geocoding_rate_limit == 1        \* requests per second
MinAddressLength == 5
MaxAttempts == 3                 \* stop_after_attempt(3)
BackoffMinSeconds == 1           \* wait_exponential(multiplier=1, min=1, ...)
BackoffMaxSeconds == 10          \* wait_exponential(..., max=10)

\* "min_interval = 1.0 / settings.geocoding_rate_limit", in ticks.
min_interval == TicksPerSecond \div geocoding_rate_limit

\* wait_exponential: 2^(attempt - 1) seconds within [min, max], in ticks.
Pow2(n) == IF n = 0 THEN 1 ELSE IF n = 1 THEN 2 ELSE 4
Backoff(attempt) ==
  LET seconds == Pow2(attempt - 1)
  IN TicksPerSecond *
       (IF seconds < BackoffMinSeconds THEN BackoffMinSeconds
        ELSE IF seconds > BackoffMaxSeconds THEN BackoffMaxSeconds
        ELSE seconds)

\* An address: the length of address.strip() and the cache key that
\* _hash_address derives from address.lower().strip().
Address(stripped_length, key) == [stripped_length |-> stripped_length, key |-> key]
Addresses == {Address(4, "jl a"), Address(13, "jl sudirman 1")}
CacheKeys == {a.key : a \in Addresses}

\* "not address or len(address.strip()) < 5"
TooShort_NoCheck(address) == FALSE

TooShort(address) == address.stripped_length < MinAddressLength

\* GeocodingResult for an address, from the provider or from the cache.
GeocodingResult(key, cached) == [address |-> key, cached |-> cached]

\* A cache hash: the result fields, absent in a hash that holds a
\* hit_count only, and the hit_count.
CacheEntry(has_result, hit_count) == [has_result |-> has_result, hit_count |-> hit_count]
MaxHits == 2                     \* hit_count is counted up to here

\* A geocode() call as it starts.  attempts counts the provider attempts that
\* raised, passes the passages of the rate limiter, provider_calls the
\* requests sent, cache_error whether a cache read raised; result is <<>> until the call returns, then <<None>> as
\* <<<<>>>> or <<<<result>>>>.
Caller(address) ==
  [address |-> address, pc |-> "start", cached |-> <<>>,
   cache_error |-> FALSE, attempts |-> 0,
   wake |-> 0, passes |-> 0, provider_calls |-> 0, provider_result |-> FALSE,
   saved |-> FALSE, returned |-> <<>>]

\* Geocoder.__init__ with the clock and the cache; the clock is far from 0.0,
\* the initial _last_request_time.  prev_request_time is history: the
\* release before the last one.
InitGeocoder ==
  /\ \E n \in 1..MaxRequests :
       \E callers \in [1..n -> {Caller(a) : a \in Addresses}] :
         geocoder = [now |-> min_interval,
                     lock |-> 0,
                     last_request_time |-> 0,
                     prev_request_time |-> <<>>,
                     cache |-> [k \in CacheKeys |-> <<>>],
                     callers |-> callers]
  /\ db = <<>>
  /\ handlers = <<>>
  /\ ingests = <<>>
  /\ worker = <<>>
  /\ OptimizerIdle

GeocoderUnchanged == UNCHANGED <<db, handlers, ingests, worker, router, call>>

\* A call returns.
Return(caller, value) == [caller EXCEPT !.pc = "done", !.returned = <<value>>]

\* Lines 259-261: the length check.
CheckAddress(c) ==
  /\ geocoder.callers[c].pc = "start"
  /\ geocoder' = [geocoder EXCEPT !.callers[c] =
       IF TooShort(@.address) THEN Return(@, <<>>)
       ELSE [@ EXCEPT !.pc = "hgetall"]]
  /\ GeocoderUnchanged

\* _get_from_cache, lines 88-92: hgetall; an exception or an empty hash is a
\* miss.
CacheLookup(c) ==
  /\ geocoder.callers[c].pc = "hgetall"
  /\ \E failed \in BOOLEAN :
       LET entry == geocoder.cache[geocoder.callers[c].address.key]
       IN geocoder' = [geocoder EXCEPT !.callers[c] =
            IF failed \/ entry = <<>>
            THEN [@ EXCEPT !.pc = "acquire", !.cache_error = failed]
            ELSE [@ EXCEPT !.pc = "hincrby", !.cached = entry]]
  /\ GeocoderUnchanged

\* _get_from_cache, lines 94-109: hincrby on the key (it creates the hash
\* when the key has expired meanwhile), then the result is built from the
\* hash that hgetall returned; a missing field or an exception is a miss.
CacheHit(c) ==
  /\ geocoder.callers[c].pc = "hincrby"
  /\ \E failed \in BOOLEAN :
       LET key == geocoder.callers[c].address.key
           entry == geocoder.cache[key]
           counted == IF entry = <<>> THEN CacheEntry(FALSE, 1)
                      ELSE CacheEntry(entry[1].has_result,
                                      IF entry[1].hit_count < MaxHits
                                      THEN entry[1].hit_count + 1 ELSE MaxHits)
       IN geocoder' = [geocoder EXCEPT
            !.cache[key] = IF failed THEN @ ELSE <<counted>>,
            !.callers[c] =
               IF failed \/ ~@.cached[1].has_result
               THEN [@ EXCEPT !.pc = "acquire", !.cache_error = failed,
                              !.cached = <<>>]
               ELSE Return([@ EXCEPT !.cached = <<>>],
                           <<GeocodingResult(key, TRUE)>>)]
  /\ GeocoderUnchanged

\* The TTL of a key runs out.
Expire(key) ==
  /\ geocoder.cache[key] # <<>>
  /\ geocoder' = [geocoder EXCEPT !.cache[key] = <<>>]
  /\ GeocoderUnchanged

\* _rate_limit, lines 137-146 up to the sleep: the lock is taken; without
\* a sleep the request time is set and the lock released at once.
Acquire_Unlocked(c) ==
  /\ geocoder.callers[c].pc = "acquire"
  /\ LET elapsed == geocoder.now - geocoder.last_request_time
     IN geocoder' =
          IF elapsed < min_interval
          THEN [geocoder EXCEPT
                  !.lock = c,
                  !.callers[c].pc = "sleep",
                  !.callers[c].wake = geocoder.now + (min_interval - elapsed)]
          ELSE [geocoder EXCEPT
                  !.prev_request_time = <<geocoder.last_request_time>>,
                  !.last_request_time = geocoder.now,
                  !.callers[c].passes = @ + 1,
                  !.callers[c].pc = "request"]
  /\ GeocoderUnchanged

Acquire(c) ==
  /\ geocoder.callers[c].pc = "acquire"
  /\ geocoder.lock = 0
  /\ LET elapsed == geocoder.now - geocoder.last_request_time
     IN geocoder' =
          IF elapsed < min_interval
          THEN [geocoder EXCEPT
                  !.lock = c,
                  !.callers[c].pc = "sleep",
                  !.callers[c].wake = geocoder.now + (min_interval - elapsed)]
          ELSE [geocoder EXCEPT
                  !.prev_request_time = <<geocoder.last_request_time>>,
                  !.last_request_time = geocoder.now,
                  !.callers[c].passes = @ + 1,
                  !.callers[c].pc = "request"]
  /\ GeocoderUnchanged

\* _rate_limit, lines 144-146: the sleep is over, the request time is set
\* and the lock released.
Wake(c) ==
  /\ geocoder.callers[c].pc = "sleep"
  /\ geocoder.now >= geocoder.callers[c].wake
  /\ geocoder' = [geocoder EXCEPT
       !.lock = 0,
       !.prev_request_time = <<geocoder.last_request_time>>,
       !.last_request_time = geocoder.now,
       !.callers[c].passes = @ + 1,
       !.callers[c].wake = 0,
       !.callers[c].pc = "request"]
  /\ GeocoderUnchanged

\* _geocode_nominatim, lines 152-197, under @retry: the provider answers
\* with a result, with an empty list, or the request raises; a raise is
\* retried after the backoff until the third, which geocode() turns into None
\* (lines 276-286).
ProviderAnswers == {"result", "empty", "error"}

ProviderRequest(c) ==
  /\ geocoder.callers[c].pc = "request"
  /\ \E answer \in ProviderAnswers :
       geocoder' = [geocoder EXCEPT !.callers[c] =
         LET sent == [@ EXCEPT !.provider_calls = @ + 1]
         IN CASE answer = "result" ->
                   [sent EXCEPT !.pc = "hset", !.provider_result = TRUE]
              [] answer = "empty" -> Return(sent, <<>>)
              [] OTHER ->
                   IF sent.attempts + 1 >= MaxAttempts
                   THEN Return([sent EXCEPT !.attempts = @ + 1], <<>>)
                   ELSE [sent EXCEPT !.attempts = @ + 1, !.pc = "backoff",
                                     !.wake = geocoder.now + Backoff(sent.attempts + 1)]]
  /\ GeocoderUnchanged

\* The wait of @retry is over: the next attempt starts at the rate limiter.
Retry(c) ==
  /\ geocoder.callers[c].pc = "backoff"
  /\ geocoder.now >= geocoder.callers[c].wake
  /\ geocoder' = [geocoder EXCEPT !.callers[c].pc = "acquire",
                                  !.callers[c].wake = 0]
  /\ GeocoderUnchanged

\* Lines 288-292 with _save_to_cache: the provider's result is stored, or
\* storing raises and is logged; the result is returned.
SaveAndReturn(c) ==
  /\ geocoder.callers[c].pc = "hset"
  /\ \E failed \in BOOLEAN :
       LET key == geocoder.callers[c].address.key
       IN geocoder' = [geocoder EXCEPT
            !.cache[key] = IF failed THEN @ ELSE <<CacheEntry(TRUE, 1)>>,
            !.callers[c] = Return([@ EXCEPT !.saved = ~failed],
                                  <<GeocodingResult(key, FALSE)>>)]
  /\ GeocoderUnchanged

\* Time passes.
Tick ==
  /\ geocoder.now < MaxClock
  /\ geocoder' = [geocoder EXCEPT !.now = @ + 1]
  /\ GeocoderUnchanged

NextGeocoder ==
  \/ \E c \in DOMAIN geocoder.callers : CheckAddress(c)
  \/ \E c \in DOMAIN geocoder.callers : CacheLookup(c)
  \/ \E c \in DOMAIN geocoder.callers : CacheHit(c)
  \/ \E key \in CacheKeys : Expire(key)
  \/ \E c \in DOMAIN geocoder.callers : Acquire(c)
  \/ \E c \in DOMAIN geocoder.callers : Wake(c)
  \/ \E c \in DOMAIN geocoder.callers : ProviderRequest(c)
  \/ \E c \in DOMAIN geocoder.callers : Retry(c)
  \/ \E c \in DOMAIN geocoder.callers : SaveAndReturn(c)
  \/ Tick

SpecGeocoder == InitGeocoder /\ [][NextGeocoder]_vars

----------------------------------------------------------------------------
\* The Kafka worker (workers/main.py, PackageProcessor): run() takes the
\* messages of the ingest topic one after the other and process_message
\* handles each in a database session of its own.

WorkerPackages == {"p1"}         \* the packages in the database
MessageIds == {<<>>, <<"p1">>, <<"p2">>}     \* message.get("package_id")
Actions == {"parse", "geocode", "full"}      \* message.get("action", "full")

\* message.value: a dict with package_id and action, or a JSON value that
\* is no dict.
Message(package_id, action) ==
  [is_dict |-> TRUE, package_id |-> package_id, action |-> action]
NotADict == [is_dict |-> FALSE, package_id |-> <<>>, action |-> "full"]
Messages == {NotADict} \cup {Message(id, a) : id \in MessageIds, a \in Actions}

\* PackageProcessor after start(), before the first message.  offset is the
\* message in work, written the status update of the open session, found
\* whether the package was read; committed, published and failed are
\* history: the messages whose session was committed, whose completion
\* event was sent, and whose processing raised.
InitWorker ==
  /\ \E n \in 1..MaxRequests :
       \E messages \in [1..n -> Messages] :
         worker = [messages |-> messages, offset |-> 1, pc |-> "next",
                   running |-> TRUE, found |-> FALSE, written |-> <<>>,
                   committed |-> {}, published |-> <<>>, failed |-> {}]
  /\ \E has_lat \in BOOLEAN :
       db = [packages |-> [p \in WorkerPackages |->
                             IF has_lat THEN "geocoded" ELSE "parsed"],
             has_lat |-> [p \in WorkerPackages |-> has_lat]]
  /\ handlers = <<>>
  /\ ingests = <<>>
  /\ geocoder = <<>>
  /\ OptimizerIdle

WorkerUnchanged == UNCHANGED <<handlers, ingests, geocoder, router, call>>

message == worker.messages[worker.offset]

\* run(), lines 168-176: the loop goes on to the following message, also
\* after an exception of process_message.
NextMessage(w, raised) ==
  [w EXCEPT !.offset = @ + 1, !.pc = "next",
            !.found = FALSE, !.written = <<>>,
            !.failed = IF raised THEN @ \cup {w.offset} ELSE @]

\* Lines 161-162: "except Exception": session.rollback(), which may raise
\* itself; either way the session is discarded and the message is over.
Fail(w) == NextMessage(w, TRUE)

\* Lines 81-91: message.get on a value that is no dict raises; a message
\* without package_id is dropped.
Receive ==
  /\ worker.pc = "next"
  /\ worker.offset \in DOMAIN worker.messages
  /\ worker' =
       IF ~message.is_dict THEN NextMessage(worker, TRUE)
       ELSE IF message.package_id = <<>> THEN NextMessage(worker, FALSE)
       ELSE [worker EXCEPT !.pc = "get_package"]
  /\ UNCHANGED db
  /\ WorkerUnchanged

\* Lines 96-110: the package is read; a package that is not there ends the
\* message; the address is parsed for "parse" and "full".
GetPackage ==
  /\ worker.pc = "get_package"
  /\ \E raised \in BOOLEAN :
       worker' =
         IF raised THEN Fail(worker)
         ELSE IF message.package_id[1] \notin WorkerPackages
         THEN NextMessage(worker, FALSE)
         ELSE [worker EXCEPT
                 !.found = TRUE,
                 !.pc = IF message.action \in {"geocode", "full"}
                        THEN "get_address" ELSE "commit"]
  /\ UNCHANGED db
  /\ WorkerUnchanged

\* Lines 112-146: for "geocode" and "full" an address without coordinates
\* is geocoded and, with a result, the status update is written.
GeocodeStoredAddress ==
  /\ worker.pc = "get_address"
  /\ \E outcome \in {"raised", "found", "none"} :
       worker' =
         IF outcome = "raised" THEN Fail(worker)
         ELSE IF db.has_lat[message.package_id[1]] \/ outcome = "none"
         THEN [worker EXCEPT !.pc = "commit"]
         ELSE [worker EXCEPT !.pc = "commit", !.written = <<"geocoded">>]
  /\ UNCHANGED db
  /\ WorkerUnchanged

\* Line 148: session.commit().
CommitSession_NoCommit ==
  /\ worker.pc = "commit"
  /\ worker' = [worker EXCEPT !.pc = "publish", !.written = <<>>]
  /\ UNCHANGED db
  /\ WorkerUnchanged

CommitSession ==
  /\ worker.pc = "commit"
  /\ \E raised \in BOOLEAN :
       IF raised
       THEN /\ worker' = Fail(worker)
            /\ UNCHANGED db
       ELSE /\ worker' = [worker EXCEPT !.pc = "publish", !.written = <<>>,
                                        !.committed = @ \cup {worker.offset}]
            /\ db' = [db EXCEPT !.packages[message.package_id[1]] =
                        IF worker.written = <<>> THEN @ ELSE worker.written[1]]
  /\ WorkerUnchanged

\* Lines 150-158: producer.send_and_wait of the completion event; a send
\* that raises has sent nothing.
Publish ==
  /\ worker.pc = "publish"
  /\ \E raised \in BOOLEAN :
       worker' =
         IF raised THEN Fail(worker)
         ELSE [NextMessage(worker, FALSE) EXCEPT
                 !.published = Append(@, worker.offset)]
  /\ UNCHANGED db
  /\ WorkerUnchanged

NextWorker ==
  \/ Receive
  \/ GetPackage
  \/ GeocodeStoredAddress
  \/ CommitSession
  \/ Publish

SpecWorker == InitWorker /\ [][NextWorker]_vars

----------------------------------------------------------------------------
\* Vocabulary of the properties.

Returned == pc = "done" /\ result # <<>>
Succeeded == Returned /\ result[1].success
Res == result[1]

NodeOfId(id) == CHOOSE i \in DOMAIN locations : locations[i].id = id
VehicleOfId(id) == vehicles[CHOOSE v \in DOMAIN vehicles : vehicles[v].id = id]

\* Places (route, position) at which the location id is emitted.
Occurrences(id) ==
  {<<r, k>> \in (DOMAIN Res.routes) \X (1..(MaxStops + 3)) :
     k \in DOMAIN Res.routes[r].stops /\ Res.routes[r].stops[k].location_id = id}

RECURSIVE SeqSum(_)
SeqSum(s) == IF s = <<>> THEN 0 ELSE Head(s) + SeqSum(Tail(s))

\* Demands of the non-depot stops of a route.
StopDemands(route) ==
  [k \in DOMAIN route.stops |->
     IF route.stops[k].location_id = "depot" THEN 0
     ELSE locations[NodeOfId(route.stops[k].location_id)].demand]

TotalDemand == SeqSum([k \in 1..(num_locations - 1) |-> locations[k].demand])
FleetCapacity == SeqSum([k \in 1..num_vehicles |-> vehicles[k - 1].capacity])

----------------------------------------------------------------------------
\* C1: after a successful optimize(), every non-depot stop id is emitted in
\* exactly one route exactly once or is listed in unassigned, never both and
\* never neither, and the depot is never listed in unassigned.
C1_StopInOneRouteOrUnassigned ==
  Succeeded =>
    /\ \A i \in StopNodes :
         LET id == locations[i].id
             listed == id \in Range(Res.unassigned)
         IN \/ Cardinality(Occurrences(id)) = 1 /\ ~listed
            \/ Cardinality(Occurrences(id)) = 0 /\ listed
    /\ "depot" \notin Range(Res.unassigned)

C1_Witness ==
  /\ Succeeded
  /\ Len(Res.routes) >= 1
  /\ Len(Res.unassigned) >= 1

\* C2: in every returned route, total_demand is the sum of the demands of
\* the route's non-depot stops and is at most the capacity of the route's
\* vehicle.
C2_DemandWithinCapacity ==
  Succeeded =>
    \A r \in DOMAIN Res.routes :
      /\ Res.routes[r].total_demand = SeqSum(StopDemands(Res.routes[r]))
      /\ Res.routes[r].total_demand <= VehicleOfId(Res.routes[r].vehicle_id).capacity

C2_Witness ==
  /\ Succeeded
  /\ Len(Res.unassigned) >= 1
  /\ \E r \in DOMAIN Res.routes :
       /\ Len(Res.routes[r].stops) = 2
       /\ Res.routes[r].total_demand = 2
       /\ VehicleOfId(Res.routes[r].vehicle_id).capacity = 3

\* C3: when every vehicle's capacity is at least the total demand and time
\* windows are off, an assignment that minimises the objective leaves no stop
\* unassigned.
C3_MinimiserServesAll ==
  ( /\ Succeeded
    /\ ~use_time_windows
    /\ \A v \in VehicleIdxs : vehicles[v].capacity >= TotalDemand
    /\ solution[1].objective = MinObjective )
  => Res.unassigned = <<>>

\* C4: with an empty location list or an empty vehicle list, optimize()
\* returns at once: success false, an error text, no route, no unassigned id,
\* solve_time_ms 0; no matrix is built and the solver is never called.
C4_EmptyInputRejected ==
  (Len0(locations) = 0 \/ Len0(vehicles) = 0) =>
    /\ pc \in {"start", "done"}
    /\ distance_matrix = <<>>
    /\ time_matrix = <<>>
    /\ solver_calls = 0
    /\ solution = <<>>
    /\ exception = <<>>
    /\ pc = "done" =>
         /\ result # <<>>
         /\ ~Res.success
         /\ Res.error # <<>> /\ Res.error[1] # ""
         /\ Res.routes = <<>>
         /\ Res.unassigned = <<>>
         /\ Res.solve_time_ms = 0

C4_Witness ==
  /\ pc = "done"
  /\ num_locations > 0
  /\ num_vehicles = 0

\* C5: when the solver returns no solution, optimize() returns success false
\* with the error 'No feasible solution found', the measured solve_time_ms
\* and empty routes and unassigned; success true is returned only for a
\* solution the solver produced, and then error is None.
C5_NoSolutionReported ==
  /\ (pc = "done" /\ solution # <<>> /\ ~Found) =>
        /\ result # <<>>
        /\ ~Res.success
        /\ Res.error = <<"No feasible solution found">>
        /\ Res.solve_time_ms = solve_time_ms
        /\ Res.routes = <<>>
        /\ Res.unassigned = <<>>
  /\ Succeeded => (Found /\ Res.error = <<>>)

C5_Witness ==
  /\ pc = "done"
  /\ solution # <<>>
  /\ ~Found
  /\ solve_time_ms > 0

\* Demands of the stops listed in unassigned.
UnassignedDemands ==
  [k \in DOMAIN Res.unassigned |-> locations[NodeOfId(Res.unassigned[k])].demand]

RouteDemands == [r \in DOMAIN Res.routes |-> Res.routes[r].total_demand]

OverDemand == ~NoInput /\ TotalDemand > FleetCapacity

\* C6: a total demand above what the fleet can carry is no failure: the
\* routing model keeps an assignment to return, and for every assignment the
\* solver returns optimize() answers success true with a non-empty
\* unassigned list, every route within its vehicle's capacity, at most the
\* fleet's capacity served and at least the excess demand left unassigned.
C6_OverDemandIsPartialSuccess ==
  /\ (pc = "solve" /\ OverDemand) => FeasiblePaths # {}
  /\ (pc = "done" /\ OverDemand /\ Found) =>
        /\ result # <<>>
        /\ Res.success
        /\ Res.unassigned # <<>>
        /\ \A r \in DOMAIN Res.routes :
             Res.routes[r].total_demand
               <= VehicleOfId(Res.routes[r].vehicle_id).capacity
        /\ SeqSum(RouteDemands) <= FleetCapacity
        /\ SeqSum(UnassignedDemands) >= TotalDemand - FleetCapacity

C6_Witness ==
  /\ Succeeded
  /\ OverDemand
  /\ Len(Res.routes) >= 1
  /\ Len(Res.unassigned) >= 1

ZeroCapacityFleet ==
  /\ ~NoInput
  /\ StopNodes # {}
  /\ \A v \in VehicleIdxs : vehicles[v].capacity = 0
  /\ \A i \in StopNodes : locations[i].demand > 0

\* C7 as claimed: with every capacity 0 and every stop demand positive,
\* optimize() returns success false.
C7_ZeroCapacityFails ==
  (Returned /\ ZeroCapacityFleet) => ~Res.success

\* C7 as amended: with every capacity 0 and every stop demand positive, the
\* only assignment of the routing model drops every stop, and for it
\* optimize() returns success true with no route, every non-depot stop in
\* unassigned and the elapsed time recorded; success false is returned only
\* when the solver returns no solution.
C7_ZeroCapacityDropsAll ==
  /\ (pc = "solve" /\ ZeroCapacityFleet) =>
        FeasiblePaths = {[v \in VehicleIdxs |-> <<>>]}
  /\ (Returned /\ ZeroCapacityFleet /\ Found) =>
        /\ Res.success
        /\ Res.routes = <<>>
        /\ Res.unassigned = [k \in 1..(num_locations - 1) |-> locations[k].id]
        /\ Res.solve_time_ms = solve_time_ms
  /\ (Returned /\ ZeroCapacityFleet /\ ~Res.success) => ~Found

C7_Witness ==
  /\ Succeeded
  /\ ZeroCapacityFleet
  /\ num_vehicles = 2
  /\ Len(Res.unassigned) = 2
  /\ Res.solve_time_ms > 0

\* C8: for every input, optimize() ends by returning an OptimizationResult;
\* no input makes an exception leave it.
C8_NeverRaises ==
  /\ pc # "raised"
  /\ exception = <<>>
  /\ pc = "done" => result # <<>>

\* C9 as claimed: the first and the last stop emitted for a route are both
\* the depot.
C9_StartsAndEndsAtDepot ==
  Succeeded =>
    \A r \in DOMAIN Res.routes :
      LET ss == Res.routes[r].stops
      IN ss[1].location_id = "depot" /\ ss[Len(ss)].location_id = "depot"

\* C9 as amended: every route's stops start with the depot and hold the
\* depot nowhere else: the stops after it are non-depot stops, at least
\* one, numbered 0, 1, 2, ... in order; the return to the depot is not
\* emitted as a stop.
C9_StartsAtDepotOnly ==
  Succeeded =>
    \A r \in DOMAIN Res.routes :
      LET ss == Res.routes[r].stops
      IN /\ Len(ss) >= 2
         /\ ss[1].location_id = "depot"
         /\ \A k \in 2..Len(ss) : ss[k].location_id # "depot"
         /\ \A k \in 1..Len(ss) : ss[k].sequence = k - 1

C9_Witness ==
  /\ Succeeded
  /\ Len(Res.routes) = 2
  /\ Len(Res.routes[2].stops) = 2

RECURSIVE ArrivalDue(_, _)
\* Travel time of the arcs before stop k of the route plus the service
\* durations of the stops before stop k.
ArrivalDue(ss, k) ==
  IF k = 1 THEN 0
  ELSE ArrivalDue(ss, k - 1)
       + time_matrix[NodeOfId(ss[k - 1].location_id)][NodeOfId(ss[k].location_id)]
       + locations[NodeOfId(ss[k - 1].location_id)].service_time_minutes

\* C10: for every emitted stop, arrival_time_minutes and
\* cumulative_time_minutes equal the travel time of the arcs traversed from
\* the vehicle start plus the service durations of the stops visited before.
C10_ArrivalIncludesService ==
  Succeeded =>
    \A r \in DOMAIN Res.routes :
      LET ss == Res.routes[r].stops
      IN \A k \in 1..Len(ss) :
           /\ ss[k].arrival_time_minutes = ArrivalDue(ss, k)
           /\ ss[k].cumulative_time_minutes = ArrivalDue(ss, k)

----------------------------------------------------------------------------
\* The path the walk of a route followed, as nodes: the stops emitted, closed
\* by the depot.
RouteNodes(route) ==
  [k \in 1..(Len(route.stops) + 1) |->
     IF k <= Len(route.stops) THEN NodeOfId(route.stops[k].location_id) ELSE 0]

RECURSIVE ArcSum(_, _)
\* The distance-matrix entries of the first k arcs of a node sequence.
ArcSum(nodes, k) ==
  IF k = 0 THEN 0
  ELSE ArcSum(nodes, k - 1) + distance_matrix[nodes[k]][nodes[k + 1]]

\* C11: the total distance of every returned route is the sum of the
\* distance-matrix entries of its arcs, the arc back to the depot included;
\* the cumulative distance of its stops starts at 0 at the depot, never
\* decreases along the route and never exceeds the route's total.
C11_RouteDistanceIsArcSum ==
  Succeeded =>
    \A r \in DOMAIN Res.routes :
      LET route == Res.routes[r]
          ss == route.stops
      IN /\ route.total_distance = ArcSum(RouteNodes(route), Len(ss))
         /\ ss[1].location_id = "depot" /\ ss[1].cumulative_distance = 0
         /\ \A k \in 1..(Len(ss) - 1) :
              ss[k].cumulative_distance <= ss[k + 1].cumulative_distance
         /\ \A k \in 1..Len(ss) : ss[k].cumulative_distance <= route.total_distance

\* A returned route of two stops at different distances from the depot.
C11_Witness ==
  /\ Succeeded
  /\ \E r \in DOMAIN Res.routes :
       /\ Len(Res.routes[r].stops) = 3
       /\ Res.routes[r].stops[2].cumulative_distance > 0
       /\ Res.routes[r].stops[3].cumulative_distance
            > Res.routes[r].stops[2].cumulative_distance
       /\ Res.routes[r].total_distance > Res.routes[r].stops[3].cumulative_distance

\* The vehicle leaves its start index for a node, not for its end index.
VisitsAStop(v) == ~IsEnd(solution[1].next[Start(v)])

RoutesOf(v) == {r \in DOMAIN Res.routes : Res.routes[r].vehicle_id = vehicles[v].id}

\* C12: the result holds a route of a vehicle exactly when the vehicle's path
\* visits a non-depot stop; every returned route has a non-depot stop, and
\* no vehicle id appears in two routes.
C12_RouteIffVehicleVisits ==
  Succeeded =>
    /\ \A v \in VehicleIdxs : (RoutesOf(v) # {}) <=> VisitsAStop(v)
    /\ \A v \in VehicleIdxs : Cardinality(RoutesOf(v)) <= 1
    /\ \A r \in DOMAIN Res.routes :
         \E k \in DOMAIN Res.routes[r].stops :
            Res.routes[r].stops[k].location_id # "depot"

\* Two vehicles, one of which stays at the depot while the other serves.
C12_Witness ==
  /\ Succeeded
  /\ num_vehicles = 2
  /\ \E v, w \in VehicleIdxs : VisitsAStop(v) /\ ~VisitsAStop(w)
  /\ Len(Res.routes) = 1

\* C14: the total distance and the total time of the result are the sums of
\* the total distance and the total time of the routes in the result, and of
\* nothing else.
C14_TotalsAreSumsOfRoutes ==
  Succeeded =>
    /\ Res.total_distance =
         SeqSum([r \in DOMAIN Res.routes |-> Res.routes[r].total_distance])
    /\ Res.total_time_minutes =
         SeqSum([r \in DOMAIN Res.routes |-> Res.routes[r].total_time_minutes])

\* Two routes that both cover distance and take time.
C14_Witness ==
  /\ Succeeded
  /\ Len(Res.routes) = 2
  /\ \A r \in DOMAIN Res.routes :
       Res.routes[r].total_distance > 0 /\ Res.routes[r].total_time_minutes > 0

\* C19: the distance matrix built for N locations is N x N, its diagonal is
\* 0, its entries are non-negative whole metres, and it is symmetric.
C19_DistanceMatrixSymmetric ==
  distance_matrix # <<>> =>
    /\ DOMAIN distance_matrix = DOMAIN locations
    /\ \A i \in DOMAIN locations :
         /\ DOMAIN distance_matrix[i] = DOMAIN locations
         /\ distance_matrix[i][i] = 0
         /\ \A j \in DOMAIN locations :
              /\ distance_matrix[i][j] \in Nat
              /\ distance_matrix[i][j] = distance_matrix[j][i]

\* A matrix of three locations at three different distances is built.
C19_Witness ==
  /\ distance_matrix # <<>>
  /\ num_locations = 3
  /\ distance_matrix[0][1] > 0
  /\ distance_matrix[1][2] > 0
  /\ distance_matrix[0][2] > distance_matrix[0][1]

\* Vehicles that could carry every stop of the call on their own.
CarriesAll(v) == vehicles[v].capacity >= TotalDemand

ServedStops == {n \in StopNodes : solution[1].next[NodeToIndex(n)] # NodeToIndex(n)}

\* C18: with balance_routes set, at least two vehicles that could each carry
\* all the stops, and at least two stops served, the solution of least cost
\* does not put every served stop on one vehicle.
C18_BalanceUsesSeveralVehicles ==
  (/\ Succeeded
   /\ balance_routes
   /\ Cardinality({v \in VehicleIdxs : CarriesAll(v)}) >= 2
   /\ Cardinality(ServedStops) >= 2
   /\ solution[1].objective = MinObjective)
  => Len(Res.routes) > 1

\* C17: every call of optimize() ends by handing back a result.
C17_EventuallyReturns == <>(pc = "done" /\ result # <<>>)

\* The stop has both bounds of a time window.
Windowed(n) ==
  locations[n].time_window_start # <<>> /\ locations[n].time_window_end # <<>>

\* Travel time of the arc plus the service time of the stop it leaves.
TransitMinutes(i, j) ==
  time_matrix[IndexToNode(i)][IndexToNode(j)]
    + (IF IndexToNode(i) # 0 THEN locations[IndexToNode(i)].service_time_minutes
       ELSE 0)

\* C15: with use_time_windows set, the solver's cumulative time of every
\* stop placed on a route is the cumulative time of the stop before it plus
\* travel, the service time of that stop and a wait of 0..30 minutes, and for
\* a stop with both window bounds it lies inside the window: no stop is
\* visited outside its window.
C15_WindowsRespected ==
  (Found /\ use_time_windows) =>
    LET next == solution[1].next
        cumul == solution[1].time_cumul
    IN /\ \A i \in DOMAIN next :
            next[i] # i =>
              /\ cumul[next[i]] - cumul[i] - TransitMinutes(i, next[i])
                   \in 0..TimeSlackMax
              /\ cumul[i] \in 0..TimeCeiling
              /\ cumul[next[i]] \in 0..TimeCeiling
       /\ \A n \in StopNodes :
            (Windowed(n) /\ n \in ServedStops) =>
              /\ locations[n].time_window_start[1] <= cumul[NodeToIndex(n)]
              /\ cumul[NodeToIndex(n)] <= locations[n].time_window_end[1]

\* A windowed stop is served after another stop, as its window closes.
C15_Witness ==
  /\ Found
  /\ use_time_windows
  /\ \E n, m \in ServedStops :
       /\ Windowed(n)
       /\ solution[1].next[NodeToIndex(m)] = NodeToIndex(n)
       /\ solution[1].time_cumul[NodeToIndex(n)] = locations[n].time_window_end[1]

\* C20: for a positive speed the time matrix has the size of the distance
\* matrix, a zero diagonal, and off the diagonal the travel time
\* floor(distance x 60 / (avg_speed_kmh x 1000)).
C20_TimeIsFloorOfQuotient ==
  (time_matrix # <<>> /\ avg_speed_kmh > 0) =>
    /\ DOMAIN time_matrix = DOMAIN distance_matrix
    /\ \A i \in DOMAIN distance_matrix :
         /\ DOMAIN time_matrix[i] = DOMAIN distance_matrix
         /\ time_matrix[i][i] = 0
         /\ \A j \in DOMAIN distance_matrix \ {i} :
              time_matrix[i][j] =
                (distance_matrix[i][j] * 60) \div (avg_speed_kmh * 1000)

CapacityOfRoute(route) == VehicleOfId(route.vehicle_id).capacity

\* The load percentage is the number 0.
ZeroPercent(lp) == lp.exact /\ lp.num = 0

C16_SolveUsesOwnLimit ==
  \A r \in DOMAIN requests :
    requests[r].time_limit # <<>> =>
      /\ requests[r].time_limit[1] = requests[r].max_solve_time_seconds
      /\ requests[r].limit_set_by[1] = r

\* Two requests with different limits have both solved, the second while
\* the first was still writing its routes.
C16_Witness ==
  \E r, q \in DOMAIN requests :
    /\ requests[r].pc = "persist"
    /\ requests[q].pc = "persist"
    /\ requests[r].time_limit # <<>>
    /\ requests[q].time_limit # <<>>
    /\ requests[r].time_limit # requests[q].time_limit
    /\ optimizer_instance[1].set_by = q

\* The objective of every feasible assignment.
ObjectiveOfFeasible == [ps \in FeasiblePaths |-> Objective(ps)]

\* C21: with use_time_windows false, two calls whose inputs differ only in
\* the windows or the service times of the stops have the same feasible
\* assignments, each with the same objective.
C21_TimingIgnoredWithoutWindows ==
  [][(pc = "solve" /\ pc' = "solve" /\ ~use_time_windows)
       => ObjectiveOfFeasible' = ObjectiveOfFeasible]_vars

\* A call without time windows whose stops carry a changed service time and
\* a window that one of its feasible assignments would miss.
C21_Witness ==
  /\ pc = "solve"
  /\ ~use_time_windows
  /\ \E n \in StopNodes : locations[n].service_time_minutes # DefaultServiceTime
  /\ \E ps \in FeasiblePaths :
       \E v \in VehicleIdxs : ~TimeReach(ps[v], 1, 0, TimeCeiling)

\* C22: with use_time_windows set, the arrival_time_minutes reported for
\* every routed stop that has a time window lies inside the window.
C22_ReportedArrivalInWindow ==
  (Succeeded /\ use_time_windows) =>
    \A r \in DOMAIN Res.routes : \A k \in DOMAIN Res.routes[r].stops :
      LET stop == Res.routes[r].stops[k]
          n == NodeOfId(stop.location_id)
      IN (n # 0 /\ Windowed(n)) =>
           /\ locations[n].time_window_start[1] <= stop.arrival_time_minutes
           /\ stop.arrival_time_minutes <= locations[n].time_window_end[1]


----------------------------------------------------------------------------
\* Vocabulary of the optimize_routes properties.

Answered(h) == handlers[h].pc = "done" /\ handlers[h].response # <<>>
OptimizerFailed(h) ==
  handlers[h].opt_result # <<>> /\ ~handlers[h].opt_result[1].success
OptimizerSucceeded(h) ==
  handlers[h].opt_result # <<>> /\ handlers[h].opt_result[1].success
AnsweredSuccess(h) == Answered(h) /\ OptimizerSucceeded(h)

\* Rows and status updates that request h has committed.
RoutesCommittedBy(h) == {r \in db.routes : r.id[1] = h}
StopsCommittedBy(h) == {s \in db.route_stops : s.route_id[1] = h}
RoutedBy(h) == {p \in PackageCodes : <<h, p>> \in db.routed_by}
ReturnedStops(h) == UNION {r.stops : r \in handlers[h].response[1].routes}

\* C23: when the optimizer reports failure, the request answers
\* success = false with no routes and every selected package as unassigned,
\* and it has created no route, no route stop and changed no package status.
C23_FailureChangesNothing ==
  \A h \in DOMAIN handlers :
    (Answered(h) /\ OptimizerFailed(h)) =>
      /\ handlers[h].response[1].status_code = 200
      /\ ~handlers[h].response[1].success
      /\ handlers[h].response[1].routes = {}
      /\ handlers[h].response[1].unassigned_packages = handlers[h].packages_data
      /\ handlers[h].written = NoWrites
      /\ RoutesCommittedBy(h) = {}
      /\ StopsCommittedBy(h) = {}
      /\ RoutedBy(h) = {}

C23_Witness ==
  \E h \in DOMAIN handlers :
    /\ Answered(h) /\ OptimizerFailed(h)
    /\ Cardinality(handlers[h].packages_data) >= 2
    /\ \A p \in handlers[h].packages_data : db.packages[p] = "geocoded"

\* C24: the commit of a successful request sets the status 'routed' for
\* exactly the selected packages that are stops of its returned routes; a
\* package it returns in unassigned_packages keeps the status it had, and is
\* 'routed' afterwards only if another request had routed it.
C24_RoutedIffInReturnedRoute ==
  [][\A h \in DOMAIN handlers :
       (handlers[h].pc = "commit" /\ handlers'[h].pc = "done") =>
         LET response == handlers'[h].response[1]
             returned == UNION {r.stops : r \in response.routes}
         IN /\ response.success
            /\ returned \cup response.unassigned_packages = handlers[h].packages_data
            /\ returned \cap response.unassigned_packages = {}
            /\ \A p \in handlers[h].packages_data :
                 /\ p \in returned => db'.packages[p] = "routed"
                 /\ p \in returned <=> <<h, p>> \in db'.routed_by
                 /\ p \in response.unassigned_packages =>
                      db'.packages[p] = db.packages[p]
                 /\ db'.packages[p] = "routed" <=>
                      \/ p \in returned
                      \/ \E g \in DOMAIN handlers \ {h} : <<g, p>> \in db.routed_by]_vars

C24_Witness ==
  \E h \in DOMAIN handlers :
    /\ AnsweredSuccess(h)
    /\ ReturnedStops(h) # {}
    /\ \A p \in ReturnedStops(h) : db.packages[p] = "routed"
    /\ \E p \in handlers[h].response[1].unassigned_packages :
         db.packages[p] = "geocoded"

\* C25: after a successful request, with database or inline vehicles, every
\* package whose status the request set to 'routed' has a route_stops row
\* that belongs to a row of routes.
C25_RoutedHasPersistedStop ==
  \A h \in DOMAIN handlers :
    AnsweredSuccess(h) =>
      \A p \in RoutedBy(h) :
        \E s \in db.route_stops :
          /\ s.package_id = p
          /\ \E r \in db.routes : r.id = s.route_id

\* C26: over any interleaving of requests a package is placed on at most one
\* route: no two requests return it as a stop, and it has at most one
\* route_stops row.
C26_PackageOnAtMostOneRoute ==
  \A p \in PackageCodes :
    /\ Cardinality({h \in DOMAIN handlers :
                      AnsweredSuccess(h) /\ p \in ReturnedStops(h)}) <= 1
    /\ Cardinality({s \in db.route_stops : s.package_id = p}) <= 1

\* C27: ingest_ocr_text is atomic.  A committed package row is never
\* 'pending': it carries the final status of the request that wrote it
\* (geocoded if geocoding succeeded, else parsed if the parse confidence is
\* above 0.5, else verification_needed) and comes with that request's address
\* row; a request answered otherwise than 200 has committed and holds nothing;
\* a request whose package_id existed is answered 409.
C27_IngestIsAtomic ==
  /\ \A row \in db.packages :
       /\ row.status # "pending"
       /\ AddressRow(row.package_id, row.by) \in db.addresses
       /\ row.by # 0 =>
            /\ ingests[row.by].response = <<IngestResponse(200, <<row.status>>)>>
            /\ row.status =
                 IF ingests[row.by].geocoded THEN "geocoded"
                 ELSE IF ingests[row.by].confidence > 5 THEN "parsed"
                 ELSE "verification_needed"
  /\ \A a \in db.addresses : \E row \in db.packages : row.by = a.by
  /\ \A i \in DOMAIN ingests :
       /\ ingests[i].pc = "done" =>
            /\ ingests[i].written = NoIngestWrites
            /\ ingests[i].response[1].status_code = 200 <=>
                 \E row \in db.packages : row.by = i
            /\ ingests[i].response[1].status_code = 200 <=>
                 \E a \in db.addresses : a.by = i
       /\ ingests[i].existed = <<TRUE>> =>
            /\ ingests[i].response = <<IngestResponse(409, <<>>)>>
            /\ ingests[i].written = NoIngestWrites

\* One request committed a package that needs verification at confidence
\* 0.5, a second one for the same package_id was answered 409, or failed.
C27_Witness ==
  \E i, j \in DOMAIN ingests :
    /\ ingests[i].response = <<IngestResponse(200, <<"verification_needed">>)>>
    /\ ingests[i].confidence = 5
    /\ ingests[j].package_id = ingests[i].package_id
    /\ ingests[j].response = <<IngestResponse(409, <<>>)>>

\* C28: provider requests pass the rate limiter one at a time: at most one
\* caller is inside it, every request sent, first attempt or retry, has
\* passed it, and two successive releases are at least
\* 1 / geocoding_rate_limit seconds apart.
C28_RateLimited ==
  /\ Cardinality({c \in DOMAIN geocoder.callers :
                    geocoder.callers[c].pc = "sleep"}) <= 1
  /\ \A c \in DOMAIN geocoder.callers :
       /\ geocoder.callers[c].pc = "sleep" => geocoder.lock = c
       /\ geocoder.callers[c].passes =
            geocoder.callers[c].provider_calls +
              (IF geocoder.callers[c].pc = "request" THEN 1 ELSE 0)
  /\ geocoder.prev_request_time # <<>> =>
       geocoder.last_request_time - geocoder.prev_request_time[1]
         >= TicksPerSecond \div 1

\* Two callers were released exactly one interval apart, one of them on a
\* retry.
C28_Witness ==
  /\ geocoder.prev_request_time # <<>>
  /\ geocoder.prev_request_time[1] > 0
  /\ geocoder.last_request_time - geocoder.prev_request_time[1] = TicksPerSecond
  /\ \E c, d \in DOMAIN geocoder.callers :
       /\ c # d
       /\ geocoder.callers[c].passes >= 2
       /\ geocoder.callers[d].passes >= 1

\* C29: geocode() always returns, a result or None.  An address shorter
\* than 5 characters gives None without a provider request; no call sends
\* more than 3 requests, and 3 failed ones give None; a cache read that
\* raised is a miss (the call goes on to the provider); only a result that
\* the provider returned is stored in the cache.
C29_GeocodeReturnsResultOrNone ==
  /\ \A c \in DOMAIN geocoder.callers :
       LET call_c == geocoder.callers[c]
           None == <<<<>>>>
       IN /\ call_c.provider_calls <= 3
          /\ call_c.attempts <= call_c.provider_calls
          /\ call_c.saved => call_c.provider_result
          /\ call_c.pc = "done" =>
               /\ call_c.returned = None \/
                    \E cached \in BOOLEAN :
                      call_c.returned = <<<<GeocodingResult(call_c.address.key, cached)>>>>
               /\ call_c.address.stripped_length < 5 =>
                    call_c.returned = None /\ call_c.provider_calls = 0
               /\ call_c.attempts = 3 => call_c.returned = None
               /\ call_c.provider_calls = 0 /\ call_c.returned # None =>
                    call_c.returned[1][1].cached
               /\ call_c.returned # None /\ ~call_c.returned[1][1].cached =>
                    call_c.provider_result
               /\ call_c.cache_error =>
                    call_c.provider_calls >= 1 /\
                    (call_c.returned # None => ~call_c.returned[1][1].cached)
  /\ \A key \in CacheKeys :
       (geocoder.cache[key] # <<>> /\ geocoder.cache[key][1].has_result) =>
         \E c \in DOMAIN geocoder.callers :
           /\ geocoder.callers[c].address.key = key
           /\ geocoder.callers[c].provider_result
           /\ geocoder.callers[c].saved

\* One call gave up after a failed cache read and three failed requests,
\* another was refused for its short address.
C29_Witness ==
  \E c, d \in DOMAIN geocoder.callers :
    /\ geocoder.callers[c].pc = "done"
    /\ geocoder.callers[c].cache_error
    /\ geocoder.callers[c].attempts = 3
    /\ geocoder.callers[c].returned = <<<<>>>>
    /\ geocoder.callers[d].pc = "done"
    /\ geocoder.callers[d].address.stripped_length < 5
    /\ geocoder.callers[d].returned = <<<<>>>>

====
